---- MODULE Spec2Model ----
(***************************************************************************)
(* Verification model of the ingestion-and-dispatch core of philia-thrifts *)
(* (webhook receiver, idempotency gate, worker pipeline, inventory          *)
(* reservation, outbound messaging client).                                 *)
(*                                                                         *)
(* The module holds several specifications over one set of variables; each  *)
(* specification drives one subsystem and leaves the others idle:           *)
(*   SpecInv   inventory reservation under row locks (inventory.py)         *)
(*   SpecSend  TikTokClient.send_message as a function of the HTTP answer   *)
(*   Spec      webhook receiver, idempotency store and dispatch             *)
(*   SpecWorker the celery task and its pipeline                            *)
(*   SpecRedelivery the pipeline for events that are already audited        *)
(*   SpecIdless the receiver on events that carry no event_id               *)
(***************************************************************************)
EXTENDS Integers, Sequences, FiniteSets, TLC

VARIABLES
    inventory,    \* committed inventory table: sku -> status, or NoRow
    inventory0,   \* the table as it was before any reservation (history)
    rowLock,      \* sku -> transaction holding the row lock (0: free)
    tx,           \* the database transactions of the reservation callers
    sendIn,       \* the platform's answer to one send_message call
    sendOut,      \* what that send_message call did with it
    settings,     \* app.core.config.settings, fixed at start-up
    redis,        \* the fast-path store: key -> value and remaining TTL
    expired,      \* the event ids whose fast-path key has expired (history)
    req,          \* the webhook POST requests being handled
    queue,        \* the process_message tasks handed to the broker
    dbConfigured, \* whether async_session_maker exists (DATABASE_URL is set)
    users,        \* committed users table: tiktok_id -> last_interaction_at
    auditLog,     \* committed idempotency_logs rows
    now,          \* the wall clock read by datetime.utcnow()
    tasks,        \* the process_message tasks known to the worker pool
    callIn,       \* the arguments of a service function call under check
    callOut       \* what that call gave back

invVars == <<inventory, inventory0, rowLock, tx>>

sendVars == <<sendIn, sendOut>>

gateVars == <<settings, redis, expired, req, queue>>

workerVars == <<dbConfigured, users, auditLog, now, tasks>>

callVars == <<callIn, callOut>>

vars == <<inventory, inventory0, rowLock, tx, sendIn, sendOut,
          settings, redis, expired, req, queue,
          dbConfigured, users, auditLog, now, tasks, callIn, callOut>>

(***************************************************************************)
(* Inventory reservation: app/services/inventory.py, app/db/models.py       *)
(***************************************************************************)

\* Number of concurrent reservation transactions (one claimant each).
MaxTx == 3

Tx == 1..MaxTx

\* Number of reserve_item calls a transaction makes: one per transaction
\* (try_reserve), except the first, which reserves twice in one transaction as
\* test_services does.
CallsOf(t) == IF t = 1 THEN 2 ELSE 1

Skus == {"SKU1", "SKU2"}

InventoryStatus == {"AVAILABLE", "RESERVED", "SOLD"}

\* Result of scalar_one_or_none() when no row has the sku.
NoRow == "NO_ROW"

\* Position of a status in the order AVAILABLE -> RESERVED -> SOLD.
StatusRank(st) ==
    CASE st = "AVAILABLE" -> 0
      [] st = "RESERVED" -> 1
      [] st = "SOLD" -> 2
      [] OTHER -> 3

TxIdle ==
    [pc |-> "idle", sku |-> "none", item |-> "none", calls |-> <<>>,
     dirty |-> {}, aborted |-> FALSE, raised |-> FALSE]

InitInv ==
    /\ inventory \in [Skus -> InventoryStatus \cup {NoRow}]
    /\ inventory0 = inventory
    /\ rowLock = [s \in Skus |-> 0]
    /\ tx = [t \in Tx |-> TxIdle]

IdleInv ==
    /\ inventory = [s \in Skus |-> NoRow]
    /\ inventory0 = inventory
    /\ rowLock = [s \in Skus |-> 0]
    /\ tx = [t \in Tx |-> TxIdle]

\* The caller, inside its own transaction, calls reserve_item(sku, user, session).
ReserveCall(t, s) ==
    /\ tx[t].pc \in {"idle", "returned"}
    /\ Len(tx[t].calls) < CallsOf(t)
    /\ tx' = [tx EXCEPT ![t].pc = "select", ![t].sku = s, ![t].item = "none"]
    /\ UNCHANGED <<inventory, inventory0, rowLock, sendVars, gateVars, workerVars, callVars>>

\* What the session shows for a row: its own pending change, else the committed row.
SessionView(t, s) ==
    IF s \in tx[t].dirty THEN "RESERVED" ELSE inventory[s]

\* A plain SELECT: reads the row without taking or waiting for the row lock.
SelectNoLock(t) ==
    /\ tx[t].pc = "select"
    /\ tx' = [tx EXCEPT ![t].pc = "check", ![t].item = SessionView(t, tx[t].sku)]
    /\ UNCHANGED <<inventory, inventory0, rowLock, sendVars, gateVars, workerVars, callVars>>

\* SELECT ... WHERE sku = :sku FOR UPDATE, then scalar_one_or_none(): waits
\* while another transaction holds the row lock, takes the lock, reads the row.
SelectForUpdate(t) ==
    /\ tx[t].pc = "select"
    /\ LET s == tx[t].sku IN
         IF inventory[s] = NoRow
         THEN /\ tx' = [tx EXCEPT ![t].pc = "check", ![t].item = NoRow]
              /\ UNCHANGED rowLock
         ELSE /\ rowLock[s] \in {0, t}
              /\ rowLock' = [rowLock EXCEPT ![s] = t]
              /\ tx' = [tx EXCEPT ![t].pc = "check", ![t].item = SessionView(t, s)]
    /\ UNCHANGED <<inventory, inventory0, sendVars, gateVars, workerVars, callVars>>

\* An exception escapes reserve_item instead of being turned into False.
ReserveOnErrorRaises == [ok |-> FALSE, err |-> TRUE, raised |-> TRUE]

\* except Exception: log and return False.
ReserveOnError == [ok |-> FALSE, err |-> TRUE, raised |-> FALSE]

\* session.execute raises (connection lost, lock timeout, deadlock victim): the
\* statement took no lock and the database transaction is aborted.
SelectError(t) ==
    /\ tx[t].pc = "select"
    /\ LET out == ReserveOnError IN
         tx' = [tx EXCEPT ![t].pc = "returned", ![t].sku = "none",
                          ![t].calls = Append(@, [sku |-> tx[t].sku, ok |-> out.ok,
                                                  err |-> out.err]),
                          ![t].aborted = TRUE,
                          ![t].raised = @ \/ out.raised]
    /\ UNCHANGED <<inventory, inventory0, rowLock, sendVars, gateVars, workerVars, callVars>>

\* Reports success whenever the row exists, whatever its status.
ReserveDecisionAnyStatus(item) == item # NoRow

\* The body of reserve_item after the row was read: True iff the row exists and
\* is AVAILABLE, and only then is the status set to RESERVED in the session.
ReserveDecision(item) == item # NoRow /\ item = "AVAILABLE"

CheckStatus(t) ==
    /\ tx[t].pc = "check"
    /\ LET s == tx[t].sku
           ok == ReserveDecision(tx[t].item) IN
         tx' = [tx EXCEPT ![t].pc = "returned", ![t].sku = "none", ![t].item = "none",
                          ![t].calls = Append(@, [sku |-> s, ok |-> ok, err |-> FALSE]),
                          ![t].dirty = IF ok THEN @ \cup {s} ELSE @]
    /\ UNCHANGED <<inventory, inventory0, rowLock, sendVars, gateVars, workerVars, callVars>>

ReleaseLocks(t) == [s \in Skus |-> IF rowLock[s] = t THEN 0 ELSE rowLock[s]]

\* The caller's transaction commits: pending changes become the committed rows
\* and the row locks are released. An aborted transaction cannot commit.
TxCommit(t) ==
    /\ tx[t].pc = "returned"
    /\ ~tx[t].aborted
    /\ inventory' = [s \in Skus |-> IF s \in tx[t].dirty THEN "RESERVED" ELSE inventory[s]]
    /\ rowLock' = ReleaseLocks(t)
    /\ tx' = [tx EXCEPT ![t].pc = "committed"]
    /\ UNCHANGED <<inventory0, sendVars, gateVars, workerVars, callVars>>

\* A reservation that is written to the table at once, outside the caller's
\* transaction.
StatusKeptOnRollback(t, s) ==
    IF s \in tx[t].dirty THEN "RESERVED" ELSE inventory[s]

\* The committed status of s after transaction t ended without a commit:
\* reserve_item only sets item.status on the session's object and adds it to
\* the session; it neither flushes nor commits, so the change goes with the
\* transaction.
StatusAfterRollback(t, s) == inventory[s]

\* The caller's transaction ends without committing (rollback, failed commit,
\* aborted transaction): pending changes are dropped, the locks are released.
TxRollback(t) ==
    /\ tx[t].pc = "returned"
    /\ inventory' = [s \in Skus |-> StatusAfterRollback(t, s)]
    /\ rowLock' = ReleaseLocks(t)
    /\ tx' = [tx EXCEPT ![t].pc = "rolledback"]
    /\ UNCHANGED <<inventory0, sendVars, gateVars, workerVars, callVars>>

NextInv ==
    \/ \E t \in Tx, s \in Skus : ReserveCall(t, s)
    \/ \E t \in Tx : SelectForUpdate(t)
    \/ \E t \in Tx : SelectError(t)
    \/ \E t \in Tx : CheckStatus(t)
    \/ \E t \in Tx : TxCommit(t)
    \/ \E t \in Tx : TxRollback(t)

(***************************************************************************)
(* Outbound messaging client: app/clients/tiktok.py                         *)
(***************************************************************************)

\* The HTTP status codes the platform may answer with: success, client error
\* and server error codes.
HttpStatuses == (200..208) \cup (400..451) \cup (500..511)

\* Bodies of the platform's answers, as JSON text.
ResponseBodies == {"{}", "{\"code\":0}"}

\* response.json(): the document a JSON text stands for.
ParseJson(text) ==
    CASE text = "{}" -> [keys |-> {}, code |-> -1]
      [] text = "{\"code\":0}" -> [keys |-> {"code"}, code |-> 0]

\* What client.post gives: an HTTP response, or an exception that is not an
\* HTTP status error (connection refused, timeout).
HttpAnswers ==
    [kind : {"response"}, status : HttpStatuses, body : ResponseBodies]
        \cup {[kind |-> "transport_error", status |-> 0, body |-> "{}"]}

\* response.raise_for_status(): raises HTTPStatusError unless the status is 2xx.
RaisesForStatus(status) == status \div 100 # 2

\* Placeholder for the JSON field of an outcome that carries no document.
NoJson == [keys |-> {}, code |-> -1]

\* return response.json()
SendReturn(doc) == [outcome |-> "json", json |-> doc, exc |-> "none"]

\* return None
SendNone == [outcome |-> "None", json |-> NoJson, exc |-> "none"]

\* raise
SendRaise(exc) == [outcome |-> "raise", json |-> NoJson, exc |-> exc]

SendPending == [outcome |-> "pending", json |-> NoJson, exc |-> "none"]

\* Classifies like send_message but treats 429 as an ordinary client error.
SendMessageNoRateLimit(answer) ==
    IF answer.kind = "transport_error" THEN SendRaise("Exception")
    ELSE IF ~RaisesForStatus(answer.status) THEN SendReturn(ParseJson(answer.body))
    ELSE IF answer.status \in {401, 403} THEN SendNone
    ELSE IF answer.status >= 500 THEN SendRaise("HTTPStatusError")
    ELSE SendNone

\* TikTokClient.send_message as a function of what client.post gives.
SendMessage(answer) ==
    IF answer.kind = "transport_error" THEN SendRaise("Exception")
    ELSE IF ~RaisesForStatus(answer.status) THEN SendReturn(ParseJson(answer.body))
    ELSE IF answer.status \in {401, 403} THEN SendNone
    ELSE IF answer.status = 429 \/ answer.status >= 500 THEN SendRaise("HTTPStatusError")
    ELSE SendNone

InitSend ==
    /\ sendIn \in HttpAnswers
    /\ sendOut = SendPending

IdleSend ==
    /\ sendIn = [kind |-> "none", status |-> 0, body |-> "{}"]
    /\ sendOut = SendPending

\* One call of send_message(recipient_id, text).
SendMessageCall ==
    /\ sendOut = SendPending
    /\ sendOut' = SendMessage(sendIn)
    /\ UNCHANGED <<sendIn, invVars, gateVars, workerVars, callVars>>

NextSend == SendMessageCall

(***************************************************************************)
(* Signature verification: app/core/security.py                             *)
(***************************************************************************)

\* The value of an absent optional (Python None) for secrets and headers.
AbsentSig == [kind |-> "absent", key |-> "", msg |-> ""]

\* hmac.new(key, msg, sha256).hexdigest(): a digest stands for the key and the
\* message it was computed from; digests of different pairs differ.
HexDigest(key, msg) == [kind |-> "hex", key |-> key, msg |-> msg]

\* The empty string as a header value.
EmptySig == [kind |-> "empty", key |-> "", msg |-> ""]

\* A header value that is not a str.
NonStringSig == [kind |-> "nonstring", key |-> "", msg |-> ""]

\* A str with characters outside ASCII.
NonAsciiSig == [kind |-> "nonascii", key |-> "", msg |-> ""]

\* The digest of key and msg written in upper-case hex digits.
UpperHex(key, msg) == [kind |-> "hex_upper", key |-> key, msg |-> msg]

\* hmac.compare_digest(a, b) for the str a = hexdigest: raises TypeError when
\* b has non-ASCII characters, else tells whether the strings are equal.
CompareDigest(a, b) ==
    IF b.kind = "nonascii" THEN [raised |-> TRUE, value |-> FALSE]
    ELSE [raised |-> FALSE, value |-> a = b]

\* Accepts any signature that is present.
VerifyPresenceOnly(client_secret, signature, raw_body) ==
    IF client_secret = "None" \/ client_secret = "" THEN FALSE
    ELSE signature.kind # "absent"

\* Compares the keys of the digests and not the bodies they were made from.
VerifyIgnoresBody(client_secret, signature, raw_body) ==
    IF client_secret = "None" \/ client_secret = "" THEN FALSE
    ELSE signature.kind = "hex" /\ signature.key = client_secret

\* verify_tiktok_signature(client_secret, signature, raw_body)
VerifyTikTokSignature(client_secret, signature, raw_body) ==
    IF client_secret = "None" \/ client_secret = "" THEN FALSE
    ELSE IF signature.kind = "absent" \/ signature.kind = "empty" THEN FALSE
    ELSE IF signature.kind = "nonstring" THEN FALSE
    ELSE LET is_valid == CompareDigest(HexDigest(client_secret, raw_body), signature)
         IN  IF is_valid.raised THEN FALSE ELSE is_valid.value

(***************************************************************************)
(* Webhook receiver and idempotency store: app/api/routes/webhook.py,       *)
(* app/services/idempotency.py, app/core/redis.py                           *)
(***************************************************************************)

\* Number of webhook POST requests in flight.
MaxRequests == 2

Requests == 1..MaxRequests

\* ttl=600 of the receiver's check_and_set call, in seconds.
IdempotencyTtl == 600

\* Raw request bodies: an event with an id, an event without one, and a body
\* that is not JSON.
BodyEvt1 == "{\"event_id\":\"evt_1\",\"timestamp\":100,\"data\":{\"sender_id\":\"user_a\"}}"

BodyNoId == "{\"timestamp\":100,\"data\":{\"sender_id\":\"user_b\"}}"

BodyBad == "{not json"

Bodies == {BodyEvt1, BodyNoId, BodyBad}

\* Events without an event_id: another one with the timestamp of BodyNoId, one
\* with a later timestamp, and two without a timestamp.
BodyNoId2 == "{\"timestamp\":100,\"data\":{\"sender_id\":\"user_c\"}}"

BodyNoId3 == "{\"timestamp\":101,\"data\":{\"sender_id\":\"user_b\"}}"

BodyNoTs == "{\"data\":{\"sender_id\":\"user_b\"}}"

BodyNoTs2 == "{\"data\":{\"sender_id\":\"user_c\"}}"

IdlessBodies == {BodyNoId, BodyNoId2, BodyNoId3, BodyNoTs, BodyNoTs2}

\* request.json() and TikTokWebhookPayload(**payload_dict): the parsed fields.
ParsePayload(body) ==
    CASE body = BodyEvt1 ->
           [ok |-> TRUE, event_id |-> "evt_1", timestamp |-> "100", sender_id |-> "user_a"]
      [] body = BodyNoId ->
           [ok |-> TRUE, event_id |-> "None", timestamp |-> "100", sender_id |-> "user_b"]
      [] body = BodyNoId2 ->
           [ok |-> TRUE, event_id |-> "None", timestamp |-> "100", sender_id |-> "user_c"]
      [] body = BodyNoId3 ->
           [ok |-> TRUE, event_id |-> "None", timestamp |-> "101", sender_id |-> "user_b"]
      [] body = BodyNoTs ->
           [ok |-> TRUE, event_id |-> "None", timestamp |-> "None", sender_id |-> "user_b"]
      [] body = BodyNoTs2 ->
           [ok |-> TRUE, event_id |-> "None", timestamp |-> "None", sender_id |-> "user_c"]
      [] OTHER ->
           [ok |-> FALSE, event_id |-> "None", timestamp |-> "None", sender_id |-> "unknown"]

\* A fallback key that leaves the timestamp out.
UnknownIdIgnoresTimestamp(timestamp) == "unknown_None"

\* f"unknown_{payload.timestamp}"
UnknownId(timestamp) == "unknown_" \o timestamp

\* The dedupe key is made from the timestamp even when the payload has an id.
ResolveEventIdAlwaysSynthesized(payload) == UnknownId(payload.timestamp)

\* event_id = payload.event_id or f"unknown_{payload.timestamp}"
ResolveEventId(payload) ==
    IF payload.event_id # "None" /\ payload.event_id # ""
    THEN payload.event_id
    ELSE UnknownId(payload.timestamp)

EventIds == {ResolveEventId(ParsePayload(b)) : b \in {BodyEvt1, BodyNoId}}

\* The dedupe keys of the events without an event_id.
IdlessEventIds == {ResolveEventId(ParsePayload(b)) : b \in IdlessBodies}

\* The secret TikTok signs with, and a key an outsider signs with.
WebhookSecret == "whsec"

ForgedKey == "forged"

\* The X-TikTok-Signature headers a request for body b may carry: none, the
\* right one, one made with another key, one made for another body.
SignaturesFor(b) ==
    {AbsentSig, HexDigest(WebhookSecret, b), HexDigest(ForgedKey, b),
     HexDigest(WebhookSecret, IF b = BodyEvt1 THEN BodyNoId ELSE BodyEvt1)}

NoResponse == [code |-> 0, status |-> "none", event_id |-> "none", duplicate |-> FALSE]

\* raise HTTPException(status_code=code)
HttpError(code) == [code |-> code, status |-> "error", event_id |-> "none", duplicate |-> FALSE]

\* return {"status": "ok", "event_id": event_id}
OkResponse(e) == [code |-> 200, status |-> "ok", event_id |-> e, duplicate |-> FALSE]

\* return {"status": "ok", "event_id": event_id, "duplicate": True}
DuplicateResponse(e) == [code |-> 200, status |-> "ok", event_id |-> e, duplicate |-> TRUE]

ReqIdle ==
    [pc |-> "idle", sig |-> AbsentSig, body |-> "", event_id |-> "none",
     is_duplicate |-> "unset", store_error |-> "none", enqueue |-> "none",
     resp |-> NoResponse]

NoKey == [value |-> "nil", ttl |-> 0]

InitGate ==
    /\ settings \in [REDIS_URL : BOOLEAN, is_local : BOOLEAN,
                     TIKTOK_WEBHOOK_SECRET : {"None", WebhookSecret}]
    /\ redis = [e \in EventIds |-> NoKey]
    /\ expired = {}
    /\ req = [r \in Requests |-> ReqIdle]
    /\ queue = {}

IdleGate ==
    /\ settings = [REDIS_URL |-> FALSE, is_local |-> FALSE, TIKTOK_WEBHOOK_SECRET |-> "None"]
    /\ redis = [e \in EventIds |-> NoKey]
    /\ expired = {}
    /\ req = [r \in Requests |-> ReqIdle]
    /\ queue = {}

\* Parses the payload before it verifies the signature.
PrecheckParseFirst(sig, body) ==
    IF ~settings.REDIS_URL THEN 503
    ELSE IF ~ParsePayload(body).ok THEN 400
    ELSE IF ~settings.is_local
            /\ ~VerifyTikTokSignature(settings.TIKTOK_WEBHOOK_SECRET, sig, body) THEN 401
    ELSE 200

\* Steps 0 to 3 of tiktok_webhook, in order: the first failing step decides the
\* response; 200 when the request reaches the idempotency check.
Precheck(sig, body) ==
    IF ~settings.REDIS_URL THEN 503
    ELSE IF ~settings.is_local
            /\ ~VerifyTikTokSignature(settings.TIKTOK_WEBHOOK_SECRET, sig, body) THEN 401
    ELSE IF ~ParsePayload(body).ok THEN 400
    ELSE 200

\* A handler that sets the idempotency key of a parsable body before it
\* rejects the request.
StoreKeyedBeforeReject(body) ==
    IF ParsePayload(body).ok
    THEN [redis EXCEPT ![ResolveEventId(ParsePayload(body))] =
                          [value |-> "processing", ttl |-> IdempotencyTtl]]
    ELSE redis

\* The store after raise HTTPException(503 / 401 / 400): the handler has made
\* no store call yet, check_and_set comes after the three checks.
StoreAfterReject(body) == redis

\* A POST arrives and is taken through the configuration check, signature
\* verification, parsing and event_id resolution.
Receive(r, sig, body) ==
    /\ req[r].pc = "idle"
    /\ LET code == Precheck(sig, body) IN
         IF code # 200
         THEN /\ req' = [req EXCEPT ![r].pc = "done", ![r].sig = sig, ![r].body = body,
                                    ![r].resp = HttpError(code)]
              /\ redis' = StoreAfterReject(body)
         ELSE /\ req' = [req EXCEPT ![r].pc = "gate", ![r].sig = sig, ![r].body = body,
                                    ![r].event_id = ResolveEventId(ParsePayload(body))]
              /\ redis' = redis
    /\ UNCHANGED <<settings, expired, queue, invVars, sendVars, workerVars, callVars>>

\* client.set(key, "processing", ex=ttl) without nx: always writes.
RedisSetAlways(e, ttl) ==
    [was_set |-> TRUE, store |-> [redis EXCEPT ![e] = [value |-> "processing", ttl |-> ttl]]]

\* A dedupe step that also answers "present" for an event whose audit record
\* is committed.
RedisSetNxOrAudited(e, ttl) ==
    IF redis[e].value = "nil" /\ \A a \in auditLog : a.event_id # e
    THEN [was_set |-> TRUE,
          store |-> [redis EXCEPT ![e] = [value |-> "processing", ttl |-> ttl]]]
    ELSE [was_set |-> FALSE, store |-> redis]

\* client.set(key, "processing", nx=True, ex=ttl): one atomic command that
\* writes the key only when it is absent and tells whether it wrote.
RedisSetNx(e, ttl) ==
    IF redis[e].value = "nil"
    THEN [was_set |-> TRUE,
          store |-> [redis EXCEPT ![e] = [value |-> "processing", ttl |-> ttl]]]
    ELSE [was_set |-> FALSE, store |-> redis]

\* check_and_set answers True (duplicate) when the store cannot be reached.
CheckAndSetFailClosed == [is_duplicate |-> TRUE, raised |-> FALSE]

\* The except branch of check_and_set: log, return False (new), do not raise.
CheckAndSetOnError == [is_duplicate |-> FALSE, raised |-> FALSE]

\* Goes on to the dispatch step whatever check_and_set answered.
AfterGateAlwaysDispatch(dup) == "dispatch"

\* if is_duplicate: return the duplicate response; otherwise go on to dispatch.
AfterGate(dup) == IF dup THEN "done" ELSE "dispatch"

\* Step 4: check_and_set(event_id, ttl=600). Either the SET NX command runs,
\* or the store cannot be reached (no client, connection error) and the call
\* takes its except branch; an exception that escaped check_and_set would be
\* caught by the receiver, which then proceeds. A duplicate is answered at once.
CheckAndSet(r) ==
    /\ req[r].pc = "gate"
    /\ \E reachable \in BOOLEAN :
         LET e == req[r].event_id
             res == RedisSetNx(e, IdempotencyTtl)
             out == CheckAndSetOnError
             dup == IF reachable THEN ~res.was_set
                    ELSE IF out.raised THEN FALSE ELSE out.is_duplicate
         IN
         /\ redis' = IF reachable THEN res.store ELSE redis
         /\ req' = [req EXCEPT
                ![r].is_duplicate = IF dup THEN "true" ELSE "false",
                ![r].store_error = IF reachable THEN "none"
                                   ELSE IF out.raised THEN "raised" ELSE "returned",
                ![r].pc = AfterGate(dup),
                ![r].resp = IF AfterGate(dup) = "done" THEN DuplicateResponse(e) ELSE @]
    /\ UNCHANGED <<settings, expired, queue, invVars, sendVars, workerVars, callVars>>

\* Answers 500 when the enqueue failed.
AfterDispatchReportsFailure(e, enqueued) ==
    IF enqueued THEN OkResponse(e) ELSE HttpError(500)

\* The response after the dispatch step, whether or not the enqueue worked.
AfterDispatch(e, enqueued) == OkResponse(e)

\* process_message(...) called as a plain function: the pipeline run starts
\* inside the request, in the first free worker slot.
ProcessMessageInline(m) ==
    LET free == {t \in DOMAIN tasks : tasks[t].state = "none"} IN
    [queue |-> queue,
     tasks |-> IF free = {} THEN tasks
               ELSE LET t == CHOOSE x \in free : \A y \in free : x <= y IN
                    [tasks EXCEPT ![t].state = "running", ![t].pc = "upsert",
                                  ![t].event_id = m.event_id, ![t].user_id = m.user_id,
                                  ![t].req = m.req, ![t].runs = 1]]

\* process_message.delay(...): the message is published to the broker and the
\* call returns; nothing of the worker is touched.
ProcessMessageDelay(m) == [queue |-> queue \cup {m}, tasks |-> tasks]

\* An except branch that deletes the event's key so a redelivery is taken up.
StoreReleasedOnEnqueueFailure(e) == [redis EXCEPT ![e] = NoKey]

\* The store after the except branch of the dispatch step: the error is
\* logged, no store call is made.
StoreAfterEnqueueFailure(e) == redis

\* Steps 5 to 7: process_message.delay(...) hands the task to the broker, or
\* raises and the error is logged; the response is 200 either way.
Dispatch(r) ==
    /\ req[r].pc = "dispatch"
    /\ \E enqueued \in BOOLEAN :
         LET e == req[r].event_id
             sent == ProcessMessageDelay([req |-> r, event_id |-> e,
                        user_id |-> ParsePayload(req[r].body).sender_id])
         IN
         /\ queue' = IF enqueued THEN sent.queue ELSE queue
         /\ tasks' = IF enqueued THEN sent.tasks ELSE tasks
         /\ redis' = IF enqueued THEN redis ELSE StoreAfterEnqueueFailure(e)
         /\ req' = [req EXCEPT ![r].pc = "done",
                               ![r].enqueue = IF enqueued THEN "ok" ELSE "failed",
                               ![r].resp = AfterDispatch(e, enqueued)]
    /\ UNCHANGED <<settings, expired, invVars, sendVars, dbConfigured, users,
                   auditLog, now, callVars>>

\* Time passes: every key's remaining TTL goes down and a key whose TTL has
\* run out is removed by the store.
Tick ==
    /\ \E e \in DOMAIN redis : redis[e].value # "nil"
    /\ \E d \in {IdempotencyTtl \div 2, IdempotencyTtl} :
         /\ redis' = [e \in DOMAIN redis |->
                        IF redis[e].value # "nil" /\ redis[e].ttl > d
                        THEN [redis[e] EXCEPT !.ttl = @ - d]
                        ELSE NoKey]
         /\ expired' = expired \cup
                        {e \in DOMAIN redis : redis[e].value # "nil" /\ redis[e].ttl <= d}
    /\ UNCHANGED <<settings, req, queue, invVars, sendVars, workerVars, callVars>>

\* ex=600 of mark_completed's SET, in seconds.
MarkCompletedTtl == 600

\* The status arguments mark_completed is called with.
CompletionStatuses == {"success", "error"}

\* client.set(key, value, xx=True, ex=ttl): writes only a key that exists.
RedisSetXx(e, value, ttl) ==
    IF redis[e].value = "nil" THEN redis
    ELSE [redis EXCEPT ![e] = [value |-> value, ttl |-> ttl]]

\* client.set(key, value, ex=ttl): writes the key, present or not, with a
\* fresh expiry.
RedisSet(e, value, ttl) == [redis EXCEPT ![e] = [value |-> value, ttl |-> ttl]]

\* mark_completed(event_id, status): SET key "completed:<status>" EX 600, or
\* the store cannot be reached and the except branch logs and returns.
MarkCompleted(e, status) ==
    /\ \E reachable \in BOOLEAN :
         /\ redis' = IF reachable
                     THEN RedisSet(e, "completed:" \o status, MarkCompletedTtl)
                     ELSE redis
         /\ callOut' = [fn |-> "mark_completed", event_id |-> e, status |-> status,
                        reachable |-> reachable, raised |-> FALSE,
                        seq |-> IF callOut.fn = "mark_completed"
                                THEN 1 - callOut.seq ELSE 0]
    /\ UNCHANGED <<settings, expired, req, queue, callIn, invVars, sendVars, workerVars>>

\* The receiver together with callers of mark_completed.
NextStore ==
    \/ \E r \in Requests, b \in Bodies : \E sig \in SignaturesFor(b) : Receive(r, sig, b)
    \/ \E r \in Requests : CheckAndSet(r)
    \/ \E r \in Requests : Dispatch(r)
    \/ Tick
    \/ \E e \in EventIds, status \in CompletionStatuses : MarkCompleted(e, status)

NextGate ==
    \/ \E r \in Requests, b \in Bodies : \E sig \in SignaturesFor(b) : Receive(r, sig, b)
    \/ \E r \in Requests : CheckAndSet(r)
    \/ \E r \in Requests : Dispatch(r)
    \/ Tick

\* The receiver with the store configured, taking correctly signed events
\* that carry no event_id.
InitIdless ==
    /\ settings = [REDIS_URL |-> TRUE, is_local |-> FALSE,
                   TIKTOK_WEBHOOK_SECRET |-> WebhookSecret]
    /\ redis = [e \in IdlessEventIds |-> NoKey]
    /\ expired = {}
    /\ req = [r \in Requests |-> ReqIdle]
    /\ queue = {}

NextIdless ==
    \/ \E r \in Requests, b \in IdlessBodies : Receive(r, HexDigest(WebhookSecret, b), b)
    \/ \E r \in Requests : CheckAndSet(r)
    \/ \E r \in Requests : Dispatch(r)
    \/ Tick

(***************************************************************************)
(* Worker: app/worker/tasks.py, app/worker/celery_app.py,                   *)
(* app/services/users.py, app/db/models.py                                  *)
(***************************************************************************)

\* Number of process_message tasks handed to the worker pool.
MaxTasks == 2

Tasks == 1..MaxTasks

\* Last value of the wall clock.
MaxTime == 1

\* max_retries=3 of the process_message task.
CeleryMaxRetries == 3

\* --concurrency=2: the worker runs at most two tasks at a time.
WorkerConcurrency == 2

UserIds == {"user_a", "user_b"}

WorkerEventIds == {"evt_1", "evt_2"}

\* last_interaction_at of a user that has no row.
NoUser == -1

\* A fresh AsyncSession: nothing pending, transaction usable.
NoSession == [user |-> "none", userTime |-> NoUser, broken |-> FALSE]

TaskNone ==
    [state |-> "none", event_id |-> "none", user_id |-> "none", retries |-> 0,
     pc |-> "none", runs |-> 0, aiRuns |-> 0, ai |-> "none", send |-> "none",
     req |-> 0, sess |-> NoSession]

\* The users table holds any of the senders, seen at time 0, or none.
InitWorker ==
    /\ dbConfigured \in BOOLEAN
    /\ users \in [UserIds -> {NoUser, 0}]
    /\ auditLog = {}
    /\ now = 0
    /\ tasks = [t \in Tasks |-> TaskNone]
    /\ callIn = [fn |-> "none"]
    /\ callOut = [fn |-> "none"]

IdleWorkerDb ==
    /\ dbConfigured = FALSE
    /\ users = [u \in UserIds |-> NoUser]
    /\ auditLog = {}
    /\ now = 0
    /\ tasks = [t \in Tasks |-> TaskNone]

IdleWorker ==
    /\ IdleWorkerDb
    /\ callIn = [fn |-> "none"]
    /\ callOut = [fn |-> "none"]

\* process_message.delay(event_id, user_id, text, raw_payload): the receiver
\* hands a task to the broker.
EnqueueTask(t, e, u) ==
    /\ tasks[t].state = "none"
    /\ tasks' = [tasks EXCEPT ![t].state = "queued", ![t].event_id = e, ![t].user_id = u]
    /\ UNCHANGED <<dbConfigured, users, auditLog, now, invVars, sendVars, gateVars, callVars>>

\* A worker takes the task: without a session maker it returns an error
\* result at once; otherwise it enters _async_process_message and opens a
\* session and a transaction.
TaskStart(t) ==
    /\ tasks[t].state = "queued"
    /\ Cardinality({o \in Tasks : tasks[o].state = "running"}) < WorkerConcurrency
    /\ IF ~dbConfigured
       THEN tasks' = [tasks EXCEPT ![t].state = "unconfigured"]
       ELSE tasks' = [tasks EXCEPT ![t].state = "running", ![t].pc = "upsert",
                                   ![t].runs = @ + 1, ![t].ai = "none",
                                   ![t].send = "none",
                                   ![t].sess = NoSession]
    /\ UNCHANGED <<dbConfigured, users, auditLog, now, invVars, sendVars, gateVars, callVars>>

\* Step 3: get_or_create_user. The user row is selected; an existing user gets
\* last_interaction_at = utcnow(), a missing one is added to the session with
\* that time. A database error here is logged and the pipeline goes on with
\* a transaction the database has aborted.
UpsertUser(t) ==
    /\ tasks[t].state = "running" /\ tasks[t].pc = "upsert"
    /\ \E dbOk \in BOOLEAN :
         tasks' = [tasks EXCEPT
            ![t].pc = "ai",
            ![t].sess = IF dbOk
                        THEN [@ EXCEPT !.user = IF users[tasks[t].user_id] = NoUser
                                                THEN "insert" ELSE "update",
                                       !.userTime = now]
                        ELSE [@ EXCEPT !.broken = TRUE]]
    /\ UNCHANGED <<dbConfigured, users, auditLog, now, invVars, sendVars, gateVars, callVars>>

\* How handle_conversation fares before its send: it obtains a final text, a
\* model call (or the formatting of the results) raises, or the inventory
\* search statement raises.
AiOutcomes == {"final_text", "openai_error", "search_error"}

\* The ways a call of send_message can end, over everything client.post gives.
SendOutcomes == {SendMessage(answer).outcome : answer \in HttpAnswers}

\* Step 5: AIAgent.handle_conversation (model call, inventory search, second
\* model call, send_message). With a final text the reply is sent and
\* send_message returns or raises as SendMessage says. Every exception of the
\* step, a raising send included, is caught and logged and the run goes on to
\* the audit step; a failed search statement leaves the transaction aborted.
AIStepRun(t) ==
    /\ tasks[t].state = "running" /\ tasks[t].pc = "ai"
    /\ \E ai \in AiOutcomes, sent \in SendOutcomes :
         tasks' = [tasks EXCEPT
            ![t].pc = "commit",
            ![t].aiRuns = @ + 1,
            ![t].ai = ai,
            ![t].send = IF ai = "final_text" THEN sent ELSE "none",
            ![t].sess = [@ EXCEPT !.broken = @ \/ ai = "search_error"]]

AIStep(t) ==
    /\ AIStepRun(t)
    /\ UNCHANGED <<dbConfigured, users, auditLog, now, invVars, sendVars, gateVars, callVars>>

\* The same step, with the send_message calls of each task counted in callOut.
AIStepCounted(t) ==
    /\ AIStepRun(t)
    /\ callOut' = [callOut EXCEPT !.calls[t] = IF tasks'[t].send # "none"
                                               THEN @ + 1 ELSE @]
    /\ UNCHANGED <<dbConfigured, users, auditLog, now, invVars, sendVars, gateVars, callIn>>

\* A wrapper that gives up at the first failing run.
RetryDecisionNever(retries) == "failed"

\* Retries once more than max_retries allows.
RetryDecisionOffByOne(retries) ==
    IF retries <= CeleryMaxRetries THEN "retry" ELSE "failed"

\* raise self.retry(exc=e, countdown=5): the task is sent again while
\* request.retries < max_retries, and fails with the exception after that.
RetryDecision(retries) ==
    IF retries < CeleryMaxRetries THEN "retry" ELSE "failed"

\* A retry that leaves request.retries as it was.
RetriesNotCounted(retries) == retries

\* self.retry sends the task again with request.retries one higher.
RetriesAfterRetry(retries) == retries + 1

\* A commit whose INSERT of a user row goes through when the row exists.
CommitMustFailUnlessUserExists(t) ==
    \/ tasks[t].sess.broken
    \/ tasks[t].event_id \in {a.event_id : a \in auditLog}

\* A commit that inserts the audit row whether or not its key is committed.
CommitMustFailUnlessAudited(t) ==
    \/ tasks[t].sess.broken
    \/ tasks[t].sess.user = "insert" /\ users[tasks[t].user_id] # NoUser

\* Whether the flush and COMMIT at the end of session.begin() must fail: the
\* transaction was aborted, a new user's primary key is already committed, or
\* the event's audit row is already committed.
CommitMustFail(t) ==
    \/ tasks[t].sess.broken
    \/ tasks[t].sess.user = "insert" /\ users[tasks[t].user_id] # NoUser
    \/ tasks[t].event_id \in {a.event_id : a \in auditLog}

\* An audit status that tells what the AI + send step did.
AuditStatusByOutcome(t) ==
    IF tasks[t].ai = "final_text" /\ tasks[t].send = "json" THEN "success" ELSE "failed"

\* The status of the IdempotencyLog row the run adds: the literal "success",
\* whatever the earlier steps did.
AuditStatus(t) == "success"

\* Step 6 and the end of the transaction: the IdempotencyLog row is added and
\* session.begin() commits. On success the user change and the audit row are
\* committed and the task returns its result. On failure everything is rolled
\* back, the exception leaves _async_process_message and process_message
\* retries the whole pipeline or gives up.
CommitRun(t) ==
    /\ tasks[t].state = "running" /\ tasks[t].pc = "commit"
    /\ \E dbOk \in BOOLEAN :
         IF dbOk /\ ~CommitMustFail(t)
         THEN /\ users' = IF tasks[t].sess.user = "none" THEN users
                          ELSE [users EXCEPT ![tasks[t].user_id] = tasks[t].sess.userTime]
              /\ auditLog' = auditLog \cup
                               {[event_id |-> tasks[t].event_id, status |-> AuditStatus(t)]}
              /\ tasks' = [tasks EXCEPT ![t].state = "success", ![t].pc = "none",
                                        ![t].ai = "none", ![t].sess = NoSession]
         ELSE /\ UNCHANGED <<users, auditLog>>
              /\ tasks' = [tasks EXCEPT
                    ![t].state = IF RetryDecision(tasks[t].retries) = "retry"
                                 THEN "queued" ELSE "failed",
                    ![t].retries = IF RetryDecision(tasks[t].retries) = "retry"
                                   THEN RetriesAfterRetry(@) ELSE @,
                    ![t].pc = "none",
                    ![t].ai = "none",
                    ![t].send = "none",
                    ![t].sess = NoSession]
    /\ UNCHANGED <<dbConfigured, now, invVars, sendVars, gateVars, callVars>>

\* The wall clock advances.
Tock ==
    /\ now < MaxTime
    /\ now' = now + 1
    /\ UNCHANGED <<dbConfigured, users, auditLog, tasks, invVars, sendVars, gateVars, callVars>>

\* The broker passes the message a request's dispatch put on the queue to the
\* worker pool, where it waits as a task for a free worker.
BrokerDeliver(t, m) ==
    /\ m \in queue
    /\ \A o \in Tasks : tasks[o].req # m.req
    /\ tasks[t].state = "none"
    /\ \A o \in Tasks : o < t => tasks[o].state # "none"
    /\ tasks' = [tasks EXCEPT ![t].state = "queued", ![t].event_id = m.event_id,
                              ![t].user_id = m.user_id, ![t].req = m.req]
    /\ UNCHANGED <<dbConfigured, users, auditLog, now, invVars, sendVars, gateVars, callVars>>

NextWorker ==
    \/ \E t \in Tasks, e \in WorkerEventIds, u \in UserIds : EnqueueTask(t, e, u)
    \/ \E t \in Tasks : TaskStart(t)
    \/ \E t \in Tasks : UpsertUser(t)
    \/ \E t \in Tasks : AIStep(t)
    \/ \E t \in Tasks : CommitRun(t)

\* The audit records for the events the worker may be handed.
AuditRecords == {[event_id |-> e, status |-> "success"] : e \in WorkerEventIds}

\* The worker with the database configured, no user seen yet, and the audit
\* records of earlier deliveries already committed.
InitRedelivery ==
    /\ dbConfigured = TRUE
    /\ users = [u \in UserIds |-> NoUser]
    /\ auditLog \in SUBSET AuditRecords
    /\ now = 0
    /\ tasks = [t \in Tasks |-> TaskNone]
    /\ callIn = [fn |-> "none"]
    /\ callOut = [fn |-> "send_message", calls |-> [t \in Tasks |-> 0]]

NextRedelivery ==
    \/ \E t \in Tasks, e \in WorkerEventIds, u \in UserIds : EnqueueTask(t, e, u)
    \/ \E t \in Tasks : TaskStart(t)
    \/ \E t \in Tasks : UpsertUser(t)
    \/ \E t \in Tasks : AIStepCounted(t)
    \/ \E t \in Tasks : CommitRun(t)

\* Receiver, broker and worker together: the tasks are the ones the receiver
\* dispatched.
NextSystem ==
    \/ \E r \in Requests, b \in Bodies : \E sig \in SignaturesFor(b) : Receive(r, sig, b)
    \/ \E r \in Requests : CheckAndSet(r)
    \/ \E r \in Requests : Dispatch(r)
    \/ Tick
    \/ \E t \in Tasks : \E m \in queue : BrokerDeliver(t, m)
    \/ \E t \in Tasks : TaskStart(t)
    \/ \E t \in Tasks : UpsertUser(t)
    \/ \E t \in Tasks : AIStep(t)
    \/ \E t \in Tasks : CommitRun(t)

\* The pipeline together with the passing of time. No guard of the pipeline
\* reads the clock, so NextWorker alone reaches every task, users-key and
\* audit state that NextWorkerClock reaches.
NextWorkerClock == NextWorker \/ Tock

(***************************************************************************)
(* Calls of single functions: app/core/security.py                          *)
(***************************************************************************)

\* The secrets a call may be given: None, the empty string, two keys.
VerifySecrets == {"None", "", WebhookSecret, ForgedKey}

\* The signatures a call may be given: None, the empty string, a value that is
\* not a str, a str that is not ASCII, and digests in lower and upper case made
\* with each key (the empty one included) for each body.
VerifySignatures ==
    {AbsentSig, EmptySig, NonStringSig, NonAsciiSig}
        \cup {HexDigest(k, b) : k \in {"", WebhookSecret, ForgedKey}, b \in Bodies}
        \cup {UpperHex(k, b) : k \in {"", WebhookSecret, ForgedKey}, b \in Bodies}

InitVerify ==
    /\ callIn \in [fn : {"verify_tiktok_signature"}, client_secret : VerifySecrets,
                   signature : VerifySignatures, raw_body : Bodies]
    /\ callOut = [fn |-> "none"]

\* One call of verify_tiktok_signature(client_secret, signature, raw_body).
VerifyCall ==
    /\ callIn.fn = "verify_tiktok_signature"
    /\ callOut.fn = "none"
    /\ callOut' = [fn |-> "verify_tiktok_signature",
                   value |-> VerifyTikTokSignature(callIn.client_secret, callIn.signature,
                                                   callIn.raw_body)]
    /\ UNCHANGED <<callIn, invVars, sendVars, gateVars, dbConfigured, users, auditLog,
                   now, tasks>>

NextVerify == VerifyCall

(***************************************************************************)
(* Webhook verification handshake: app/api/routes/webhook.py (GET)          *)
(***************************************************************************)

\* A query parameter the request does not carry (the default None).
Absent == [present |-> FALSE, value |-> ""]

\* A query parameter carried with value v.
Given(v) == [present |-> TRUE, value |-> v]

HandshakeModes == {Absent, Given("subscribe"), Given("unsubscribe"), Given("SUBSCRIBE"), Given("")}

HandshakeTokens == {Absent, Given("tok"), Given("wrong")}

HandshakeChallenges == {Absent, Given(""), Given("xyz123"), Given("1158201444")}

\* The body the route's default JSON response class makes of a returned str
\* that needs no escaping: the text between double quotes.
JsonDumps(text) == "\"" \o text \o "\""

\* raise HTTPException(status_code=code, detail=detail)
HandshakeError(code, detail) ==
    [code |-> code, body |-> "{\"detail\":" \o JsonDumps(detail) \o "}"]

\* tiktok_webhook_verify(hub_mode, hub_verify_token, hub_challenge) as the HTTP
\* response the route gives.
TikTokWebhookVerify(hub_mode, hub_verify_token, hub_challenge) ==
    IF hub_mode # Given("subscribe") THEN HandshakeError(400, "Invalid mode")
    ELSE IF ~hub_challenge.present \/ hub_challenge.value = ""
         THEN HandshakeError(400, "Missing challenge")
    ELSE [code |-> 200, body |-> JsonDumps(hub_challenge.value)]

InitHandshake ==
    /\ callIn \in [fn : {"tiktok_webhook_verify"}, hub_mode : HandshakeModes,
                   hub_verify_token : HandshakeTokens, hub_challenge : HandshakeChallenges]
    /\ callOut = [fn |-> "none"]

\* One GET /webhook/tiktok request.
HandshakeCall ==
    /\ callIn.fn = "tiktok_webhook_verify"
    /\ callOut.fn = "none"
    /\ callOut' = [fn |-> "tiktok_webhook_verify",
                   resp |-> TikTokWebhookVerify(callIn.hub_mode, callIn.hub_verify_token,
                                                callIn.hub_challenge)]
    /\ UNCHANGED <<callIn, invVars, sendVars, gateVars, dbConfigured, users, auditLog,
                   now, tasks>>

NextHandshake == HandshakeCall

(***************************************************************************)
(* Inventory search: app/services/inventory.py (search_available_items)     *)
(***************************************************************************)

\* Number of rows in the inventory table searched.
MaxItems == 2

ItemIds == 1..MaxItems

\* Texts are sequences of characters.
Lower(c) == IF c = "A" THEN "a" ELSE IF c = "B" THEN "b" ELSE c

\* A NULL column value, and a column value with text.
NullText == [null |-> TRUE, text |-> <<>>]

Text(chars) == [null |-> FALSE, text |-> chars]

ItemNames == {<<"a">>, <<"A", "b">>, <<"b">>}

ItemDescriptions == {NullText, Text(<<"a", "_">>)}

SearchQueries == {<<>>, <<"a">>, <<"A">>, <<"B">>, <<"_">>, <<"%">>, <<"a", "_">>, <<"a", "b">>}

\* The rows an inventory table may hold.
ItemRows ==
    [name : ItemNames, description : ItemDescriptions, status : InventoryStatus,
     created_at : 1..2]

\* text ILIKE pattern: % stands for any run of characters, _ for any one
\* character, every other character for itself without regard to case.
RECURSIVE ILike(_, _)
ILike(text, pattern) ==
    IF pattern = <<>> THEN text = <<>>
    ELSE IF Head(pattern) = "%"
         THEN ILike(text, Tail(pattern)) \/ (text # <<>> /\ ILike(Tail(text), pattern))
    ELSE IF text = <<>> THEN FALSE
    ELSE IF Head(pattern) = "_" THEN ILike(Tail(text), Tail(pattern))
    ELSE Lower(Head(text)) = Lower(Head(pattern)) /\ ILike(Tail(text), Tail(pattern))

\* f"%{query}%"
SearchPattern(query) == <<"%">> \o query \o <<"%">>

\* column.ilike(pattern) in a WHERE clause: NULL is not a match.
ColumnILike(column, pattern) == ~column.null /\ ILike(column.text, pattern)

\* The WHERE clause of the search statement.
Matches(row, query) ==
    /\ row.status = "AVAILABLE"
    /\ \/ ColumnILike(Text(row.name), SearchPattern(query))
       \/ ColumnILike(row.description, SearchPattern(query))

\* ORDER BY created_at DESC: every order of the ids the database may give,
\* rows of equal created_at in either order.
NewestFirst(table, ids) ==
    {order \in [1..Cardinality(ids) -> ids] :
        /\ \A i, j \in 1..Cardinality(ids) : i # j => order[i] # order[j]
        /\ \A i, j \in 1..Cardinality(ids) :
              i < j => table[order[i]].created_at >= table[order[j]].created_at}

Min(a, b) == IF a < b THEN a ELSE b

\* The lists search_available_items(query, session, limit) may return.
SearchAvailableItems(table, query, limit) ==
    LET ids == {i \in ItemIds : Matches(table[i], query)}
    IN  {SubSeq(order, 1, Min(limit, Cardinality(ids))) : order \in NewestFirst(table, ids)}

InitSearch ==
    /\ callIn \in [fn : {"search_available_items"}, table : [ItemIds -> ItemRows],
                   query : SearchQueries, limit : 0..MaxItems]
    /\ callOut = [fn |-> "none"]

\* One call of search_available_items.
SearchCall ==
    /\ callIn.fn = "search_available_items"
    /\ callOut.fn = "none"
    /\ \E items \in SearchAvailableItems(callIn.table, callIn.query, callIn.limit) :
         callOut' = [fn |-> "search_available_items", items |-> items]
    /\ UNCHANGED <<callIn, invVars, sendVars, gateVars, dbConfigured, users, auditLog,
                   now, tasks>>

NextSearch == SearchCall

(***************************************************************************)
(* Messaging window: app/services/users.py (check_window_status)            *)
(***************************************************************************)

\* timedelta(hours=48): the length of the messaging window, in hours.
WindowHours == 48

\* Last hour the clock of the window checks reaches.
MaxHours == 100

\* The spans of time, in hours, that pass between calls.
HourSteps == {47, 48, 49, 50}

\* Treats the instant the window expires as still inside it.
CheckWindowInclusive(last_interaction_at, utcnow) ==
    IF last_interaction_at = NoUser THEN FALSE
    ELSE utcnow <= last_interaction_at + WindowHours

\* check_window_status for a user whose row holds last_interaction_at (NoUser
\* when there is no row), called at time utcnow.
CheckWindowStatus(last_interaction_at, utcnow) ==
    IF last_interaction_at = NoUser THEN FALSE
    ELSE utcnow < last_interaction_at + WindowHours

InitWindow ==
    /\ dbConfigured = TRUE
    /\ users \in [UserIds -> {NoUser, 0}]
    /\ auditLog = {}
    /\ now = 0
    /\ tasks = [t \in Tasks |-> TaskNone]
    /\ callIn = [fn |-> "none"]
    /\ callOut = [fn |-> "none"]

\* get_or_create_user(tiktok_id, username, session) followed by the commit of
\* its session: the user's row holds the time of the call.
GetOrCreateUserCall(u) ==
    /\ users' = [users EXCEPT ![u] = now]
    /\ callOut' = [fn |-> "get_or_create_user", tiktok_id |-> u, at |-> now]
    /\ UNCHANGED <<callIn, dbConfigured, auditLog, now, tasks, invVars, sendVars, gateVars>>

\* check_window_status(tiktok_id, session)
CheckWindowCall(u) ==
    /\ callOut' = [fn |-> "check_window_status", tiktok_id |-> u, at |-> now,
                   last_interaction_at |-> users[u],
                   value |-> CheckWindowStatus(users[u], now)]
    /\ UNCHANGED <<callIn, dbConfigured, users, auditLog, now, tasks, invVars, sendVars,
                   gateVars>>

\* Hours pass between calls.
HoursPass(h) ==
    /\ now + h <= MaxHours
    /\ now' = now + h
    /\ UNCHANGED <<callIn, callOut, dbConfigured, users, auditLog, tasks, invVars,
                   sendVars, gateVars>>

NextWindow ==
    \/ \E u \in UserIds : GetOrCreateUserCall(u)
    \/ \E u \in UserIds : CheckWindowCall(u)
    \/ \E h \in HourSteps : HoursPass(h)

(***************************************************************************)
(* Payload normalization: app/api/routes/webhook.py (TikTokWebhookPayload)  *)
(***************************************************************************)

\* data["message"]: missing, a value that is not a dict, or a dict with some
\* of the keys from_user_id, content, text, body.
NoMessageKeys ==
    [from_user_id |-> Absent, content |-> Absent, text |-> Absent, body |-> Absent]

PayloadMessages ==
    {[kind |-> "absent", keys |-> NoMessageKeys],
     [kind |-> "scalar", keys |-> NoMessageKeys]}
    \cup [kind : {"dict"},
          keys : [from_user_id : {Absent, Given("user_nested")},
                  content : {Absent, Given("text_content")},
                  text : {Absent, Given("text_text")},
                  body : {Absent, Given("text_body")}]]

\* The parsed payloads, by the keys they carry: data.sender_id, data.text,
\* data.message, entry[0].changes[0].value.sender and .text.
Payloads ==
    [data_sender_id : {Absent, Given("user_flat")},
     data_text : {Absent, Given("text_flat")},
     message : PayloadMessages,
     entry_sender : {Absent, Given("user_entry")},
     entry_text : {Absent, Given("text_entry")}]

\* The sender_id property.
SenderId(payload) ==
    IF payload.data_sender_id.present THEN payload.data_sender_id.value
    ELSE IF payload.message.kind = "dict" /\ payload.message.keys.from_user_id.present
         THEN payload.message.keys.from_user_id.value
    ELSE IF payload.entry_sender.present THEN payload.entry_sender.value
    ELSE "unknown"

\* The message_text property: data.message's content, text or body, then the
\* entry path, then "". data.text is not looked at.
MessageText(payload) ==
    LET msg == payload.message.keys IN
    IF payload.message.kind = "dict" /\ msg.content.present THEN msg.content.value
    ELSE IF payload.message.kind = "dict" /\ msg.text.present THEN msg.text.value
    ELSE IF payload.message.kind = "dict" /\ msg.body.present THEN msg.body.value
    ELSE IF payload.entry_text.present THEN payload.entry_text.value
    ELSE ""

InitPayload ==
    /\ callIn \in [fn : {"normalize"}, payload : Payloads]
    /\ callOut = [fn |-> "none"]

\* Step 5 of the receiver: user_id = payload.sender_id, text =
\* payload.message_text, the arguments of the dispatched task.
NormalizeCall ==
    /\ callIn.fn = "normalize"
    /\ callOut.fn = "none"
    /\ callOut' = [fn |-> "normalize", user_id |-> SenderId(callIn.payload),
                   text |-> MessageText(callIn.payload), dispatched |-> TRUE]
    /\ UNCHANGED <<callIn, invVars, sendVars, gateVars, dbConfigured, users, auditLog,
                   now, tasks>>

NextPayload == NormalizeCall

(***************************************************************************)
(* One pipeline run step by step: app/worker/tasks.py                       *)
(* (_async_process_message) and app/services/ai_agent.py                    *)
(* (AIAgent.handle_conversation), next to a reservation transaction         *)
(***************************************************************************)

\* Largest number of tool calls in one answer of the model.
MaxToolCalls == 2

\* The function names a tool call may carry: the one tool offered, or another.
ToolNames == {"search_inventory", "other_tool"}

\* response_msg.tool_calls: None or empty, or a list of tool calls.
ToolCallLists == UNION {[1..n -> ToolNames] : n \in 0..MaxToolCalls}

\* message.content of a model answer: a text, or None.
ModelContents == {"text", "None"}

\* The transaction that reserves items while the run goes on.
Reserver == 1

RunStart0 ==
    [fn |-> "process_message", pc |-> "upsert", tool_calls |-> <<>>, i |-> 0,
     trace |-> <<>>, final_text |-> "unset", raised |-> "none", broken |-> FALSE,
     upserted |-> FALSE, fed |-> 0, found |-> FALSE, sent |-> "none",
     committed |-> FALSE]

InitRun ==
    /\ callIn \in [fn : {"process_message"}, event_id : {"evt_1"}, user_id : UserIds]
    /\ callOut = [fn |-> "none"]
    /\ dbConfigured = TRUE
    /\ users = [u \in UserIds |-> NoUser]
    /\ auditLog = {}
    /\ now = 0
    /\ tasks = [t \in Tasks |-> TaskNone]

\* _async_process_message opens its session and transaction.
RunBegin ==
    /\ callIn.fn = "process_message"
    /\ callOut.fn = "none"
    /\ callOut' = RunStart0
    /\ UNCHANGED <<callIn, invVars, sendVars, gateVars, workerVars>>

\* Step 3: get_or_create_user inside try/except; a database error is logged,
\* the run goes on and the transaction is left aborted.
RunUpsert ==
    /\ callOut.fn = "process_message" /\ callOut.pc = "upsert"
    /\ \E dbOk \in BOOLEAN :
         callOut' = [callOut EXCEPT !.pc = "call1", !.upserted = dbOk, !.broken = ~dbOk]
    /\ UNCHANGED <<callIn, invVars, sendVars, gateVars, workerVars>>

\* Where handle_conversation goes after a step that did not raise: after the
\* first model call to the tool loop when tools were requested, else to the
\* reply; after the i-th tool call to the next one, then to the second model
\* call; after the second model call to the reply; after the reply, out.
AgentNextLoops(pc, tool_calls, i) ==
    CASE pc = "call1" -> IF Len(tool_calls) > 0 THEN "tools" ELSE "send"
      [] pc = "tools" -> IF i < Len(tool_calls) THEN "tools" ELSE "call2"
      [] pc = "call2" -> "call1"
      [] OTHER -> "audit"

AgentNext(pc, tool_calls, i) ==
    CASE pc = "call1" -> IF Len(tool_calls) > 0 THEN "tools" ELSE "send"
      [] pc = "tools" -> IF i < Len(tool_calls) THEN "tools" ELSE "call2"
      [] pc = "call2" -> "send"
      [] OTHER -> "audit"

\* An exception leaves handle_conversation and is caught by the run's
\* except Exception, which logs it and goes on to the audit step.
AgentRaise(run, cause) == [run EXCEPT !.pc = "audit", !.raised = cause]

\* Step 1 of the conversation: chat.completions.create with the tools offered.
ModelCall1 ==
    /\ callOut.fn = "process_message" /\ callOut.pc = "call1"
    /\ \E ok \in BOOLEAN, calls \in ToolCallLists, content \in ModelContents :
         LET run == [callOut EXCEPT !.trace = Append(@, "model_with_tools")] IN
         callOut' = IF ~ok THEN AgentRaise(run, "openai")
                    ELSE [run EXCEPT !.tool_calls = calls, !.i = 1,
                                     !.final_text = content,
                                     !.pc = AgentNext("call1", calls, 0)]
    /\ UNCHANGED <<callIn, invVars, sendVars, gateVars, workerVars>>

\* The rows a search may return: any AVAILABLE rows (the query decides which).
AvailableSkus == {s \in Skus : inventory[s] = "AVAILABLE"}

\* A search that marks the rows it returns as RESERVED.
SearchReservesFound(found) ==
    [s \in Skus |-> IF s \in found THEN "RESERVED" ELSE inventory[s]]

\* The inventory table after search_available_items ran: one SELECT, which
\* writes nothing.
SearchTableAfter(found) == inventory

\* json.dumps([{"name": i.name, "price": str(i.price), "size": i.size_label,
\* ...} for i in items]): the Inventory model has no attribute price or
\* size_label, so the first item raises AttributeError; no item, "[]".
FormatItems(found) ==
    IF found = {} THEN [raised |-> FALSE, text |-> "[]"]
    ELSE [raised |-> TRUE, text |-> "none"]

\* One turn of the loop over tool_calls: a search_inventory call parses its
\* arguments, runs the search, formats the rows and appends the tool result;
\* a call of another name is passed over.
ToolStep ==
    /\ callOut.fn = "process_message" /\ callOut.pc = "tools"
    /\ LET i == callOut.i
           next == AgentNext("tools", callOut.tool_calls, i) IN
         IF callOut.tool_calls[i] # "search_inventory"
         THEN /\ callOut' = [callOut EXCEPT !.i = i + 1, !.pc = next]
              /\ UNCHANGED inventory
         ELSE \E argsOk \in BOOLEAN, dbOk \in BOOLEAN, found \in SUBSET AvailableSkus :
                IF ~argsOk
                THEN /\ callOut' = AgentRaise(callOut, "arguments")
                     /\ UNCHANGED inventory
                ELSE IF ~dbOk \/ callOut.broken
                THEN /\ callOut' = AgentRaise([callOut EXCEPT !.broken = TRUE], "search")
                     /\ UNCHANGED inventory
                ELSE LET run == [callOut EXCEPT !.trace = Append(@, "search"),
                                                !.found = @ \/ found # {}] IN
                     /\ inventory' = SearchTableAfter(found)
                     /\ callOut' = IF FormatItems(found).raised
                                    THEN AgentRaise(run, "format")
                                    ELSE [run EXCEPT !.fed = @ + 1, !.i = i + 1,
                                                     !.pc = next]
    /\ UNCHANGED <<callIn, inventory0, rowLock, tx, sendVars, gateVars, workerVars>>

\* Step 2 of the conversation: chat.completions.create without tools.
ModelCall2 ==
    /\ callOut.fn = "process_message" /\ callOut.pc = "call2"
    /\ \E ok \in BOOLEAN, content \in ModelContents :
         LET run == [callOut EXCEPT !.trace = Append(@, "model_no_tools")] IN
         callOut' = IF ~ok THEN AgentRaise(run, "openai")
                    ELSE [run EXCEPT !.final_text = content,
                                     !.pc = AgentNext("call2", callOut.tool_calls, 0)]
    /\ UNCHANGED <<callIn, invVars, sendVars, gateVars, workerVars>>

\* final_text[:100] for the log raises on None; otherwise send_message is
\* called with the final text and returns or raises.
SendReply ==
    /\ callOut.fn = "process_message" /\ callOut.pc = "send"
    /\ IF callOut.final_text = "None"
       THEN callOut' = AgentRaise(callOut, "final_text")
       ELSE \E sent \in SendOutcomes :
              LET run == [callOut EXCEPT !.trace = Append(@, "send"), !.sent = sent] IN
              callOut' = IF sent = "raise" THEN AgentRaise(run, "send")
                         ELSE [run EXCEPT !.pc = AgentNext("send", callOut.tool_calls, 0)]
    /\ UNCHANGED <<callIn, invVars, sendVars, gateVars, workerVars>>

\* Step 6 and the end of the transaction block: the audit row is added and
\* the commit writes the user row and the audit row, unless the transaction
\* was aborted or the commit fails.
RunAudit ==
    /\ callOut.fn = "process_message" /\ callOut.pc = "audit"
    /\ \E dbOk \in BOOLEAN :
         LET ok == dbOk /\ ~callOut.broken IN
         /\ callOut' = [callOut EXCEPT !.pc = "done", !.committed = ok]
         /\ users' = IF ok /\ callOut.upserted
                     THEN [users EXCEPT ![callIn.user_id] = now] ELSE users
         /\ auditLog' = IF ok
                        THEN auditLog \cup {[event_id |-> callIn.event_id,
                                             status |-> "success"]}
                        ELSE auditLog
    /\ UNCHANGED <<callIn, dbConfigured, now, tasks, invVars, sendVars, gateVars>>

\* The run, and a transaction reserving items beside it.
NextRun ==
    \/ RunBegin
    \/ RunUpsert
    \/ ModelCall1
    \/ ToolStep
    \/ ModelCall2
    \/ SendReply
    \/ RunAudit
    \/ \E s \in Skus : ReserveCall(Reserver, s)
    \/ SelectForUpdate(Reserver)
    \/ SelectError(Reserver)
    \/ CheckStatus(Reserver)
    \/ TxCommit(Reserver)
    \/ TxRollback(Reserver)

(***************************************************************************)
(* Properties of the reservation subsystem                                  *)
(***************************************************************************)

\* The reserve_item calls made for sku s, as <<transaction, call number>>.
CallsFor(s) ==
    {c \in Tx \X (1..2) : c[2] \in DOMAIN tx[c[1]].calls /\ tx[c[1]].calls[c[2]].sku = s}

\* The transactions that called, or are calling, reserve_item for sku s.
Claimants(s) ==
    {t \in Tx : tx[t].sku = s \/ \E i \in DOMAIN tx[t].calls : tx[t].calls[i].sku = s}

\* The calls for s that returned True.
Winners(s) == {c \in CallsFor(s) : tx[c[1]].calls[c[2]].ok}

\* s started AVAILABLE and every transaction that raced for it has committed.
RaceSettled(s) ==
    /\ inventory0[s] = "AVAILABLE"
    /\ Claimants(s) # {}
    /\ \A t \in Claimants(s) : tx[t].pc = "committed"

\* C2: given one AVAILABLE item and any number of concurrent reserve_item
\* calls for its sku, each in a transaction that commits, exactly one call
\* returns True, all others return False, and the committed status is RESERVED.
C2_ExactlyOneReservation ==
    \A s \in Skus :
        RaceSettled(s) => Cardinality(Winners(s)) = 1 /\ inventory[s] = "RESERVED"

\* Three transactions raced for one AVAILABLE sku and all committed.
C2_Witness ==
    \E s \in Skus : RaceSettled(s) /\ Cardinality(Claimants(s)) >= 3

\* The transactions holding sku s as reserved: reserve_item returned True to
\* them and their transaction has not been rolled back.
Holders(s) == {t \in Tx : s \in tx[t].dirty /\ tx[t].pc # "rolledback"}

\* C8: the committed status of an item only moves forward in the order
\* AVAILABLE -> RESERVED -> SOLD (no step takes RESERVED or SOLD back to
\* AVAILABLE, or SOLD back to RESERVED), and no item is held as reserved by
\* two claimants.
C8_ForwardOnly ==
    /\ [][\A s \in Skus : StatusRank(inventory'[s]) >= StatusRank(inventory[s])]_vars
    /\ [](\A s \in Skus : Cardinality(Holders(s)) <= 1)

\* An item went from AVAILABLE to RESERVED and a later claimant was refused.
C8_Witness ==
    \E s \in Skus :
        /\ inventory0[s] = "AVAILABLE"
        /\ inventory[s] = "RESERVED"
        /\ \E c \in CallsFor(s) : ~tx[c[1]].calls[c[2]].ok /\ ~tx[c[1]].calls[c[2]].err

\* A True result of transaction t for sku s is backed by the reservation: the
\* change is pending in t's session under t's row lock until the transaction
\* ends, and it is the committed status once the transaction has committed.
TookEffect(t, s) ==
    /\ s \in tx[t].dirty
    /\ tx[t].pc \in {"select", "check", "returned"} => rowLock[s] = t
    /\ tx[t].pc = "committed" => inventory[s] = "RESERVED"

\* C9: an unexpected error during reserve_item makes it return False and
\* never raise, and reserve_item returns True only for a reservation that took
\* effect.
C9_FailSafe ==
    \A t \in Tx :
        /\ ~tx[t].raised
        /\ \A i \in DOMAIN tx[t].calls :
              /\ tx[t].calls[i].err => ~tx[t].calls[i].ok
              /\ tx[t].calls[i].ok => TookEffect(t, tx[t].calls[i].sku)

\* One call failed with an error and returned False while another call, for
\* the same sku, returned True.
C9_Witness ==
    \E t, u \in Tx : \E i \in DOMAIN tx[t].calls, j \in DOMAIN tx[u].calls :
        /\ tx[t].calls[i].err /\ ~tx[t].calls[i].ok
        /\ tx[u].calls[j].ok /\ tx[u].calls[j].sku = tx[t].calls[i].sku

(***************************************************************************)
(* Properties of the messaging client                                       *)
(***************************************************************************)

\* C10: send_message puts every HTTP error response into exactly one of three
\* classes: 401 and 403 return None without raising; 429 and every status
\* >= 500 re-raise the error; every other 4xx returns None without raising.
\* A successful response returns the response body.
C10_SendClassification ==
    (sendOut.outcome # "pending" /\ sendIn.kind = "response") =>
        LET st == sendIn.status IN
        /\ st \in {401, 403} => sendOut.outcome = "None"
        /\ (st = 429 \/ st >= 500) =>
              sendOut.outcome = "raise" /\ sendOut.exc = "HTTPStatusError"
        /\ (st \in 400..499 /\ st \notin {401, 403, 429}) => sendOut.outcome = "None"
        /\ st \in 200..299 =>
              sendOut.outcome = "json" /\ sendOut.json = ParseJson(sendIn.body)

\* A rate-limited send was re-raised.
C10_Witness ==
    /\ sendIn.kind = "response" /\ sendIn.status = 429
    /\ sendOut.outcome = "raise"

(***************************************************************************)
(* Properties of the receiver and the idempotency gate                      *)
(***************************************************************************)

\* The requests that reached the idempotency check with event id e.
Deliveries(e) == {r \in Requests : req[r].event_id = e}

\* The check_and_set calls for e that have returned.
Returned(e) == {r \in Deliveries(e) : req[r].is_duplicate # "unset"}

\* Every call for e so far reached the store, and e's key has not expired.
StoreReachableWithinTtl(e) ==
    /\ e \notin expired
    /\ \A r \in Deliveries(e) : req[r].store_error = "none"

\* C1: when N >= 1 calls of check_and_set(event_id) run in any interleaving
\* against a reachable store with no prior key and within the TTL, exactly one
\* call returns False (new) and the other N-1 return True (duplicate).
C1_ExactlyOneNew ==
    \A e \in EventIds :
        (StoreReachableWithinTtl(e) /\ Returned(e) # {}) =>
            Cardinality({r \in Returned(e) : req[r].is_duplicate = "false"}) = 1

\* Two calls for one event id have returned, the store was reachable and the
\* key has not expired.
C1_Witness ==
    \E e \in EventIds :
        StoreReachableWithinTtl(e) /\ Cardinality(Returned(e)) >= 2

\* The tasks in the queue for event id e.
TasksFor(e) == {m \in queue : m.event_id = e}

\* The same event was delivered two or more times, every delivery has been
\* answered, the store was reachable and the key has not expired.
DeliveredTwice(e) ==
    /\ StoreReachableWithinTtl(e)
    /\ Cardinality(Deliveries(e)) >= 2
    /\ \A r \in Deliveries(e) : req[r].pc = "done"

BadSignature(r) ==
    \/ req[r].sig.kind = "absent"
    \/ settings.TIKTOK_WEBHOOK_SECRET = "None"
    \/ req[r].sig # HexDigest(settings.TIKTOK_WEBHOOK_SECRET, req[r].body)

\* The request wrote no idempotency key and dispatched nothing.
NoTrace(r) ==
    /\ req[r].is_duplicate = "unset"
    /\ req[r].enqueue = "none"
    /\ \A m \in queue : m.req # r

\* C4 as stated: in non-local mode a POST whose signature is missing or does
\* not verify is answered 401 and never causes a dispatch.
C4_BadSignature401 ==
    \A r \in Requests :
        (req[r].pc # "idle" /\ ~settings.is_local /\ BadSignature(r)) =>
            req[r].pc = "done" /\ req[r].resp.code = 401 /\ NoTrace(r)

\* C4 as amended: in non-local mode a POST whose signature is missing or does
\* not verify never causes a dispatch; it is answered 401 when the backing
\* store is configured, and 503 (before the signature is looked at) when it is
\* not.
C4_BadSignatureRejected ==
    \A r \in Requests :
        (req[r].pc # "idle" /\ ~settings.is_local /\ BadSignature(r)) =>
            /\ req[r].pc = "done"
            /\ req[r].resp.code = (IF settings.REDIS_URL THEN 401 ELSE 503)
            /\ NoTrace(r)

\* With the store configured and a secret set, a request signed with another
\* key was answered 401 while a correctly signed one was dispatched.
C4_Witness ==
    \E r, o \in Requests :
        /\ ~settings.is_local /\ settings.REDIS_URL
        /\ req[r].pc = "done" /\ req[r].sig = HexDigest(ForgedKey, req[r].body)
        /\ req[r].resp.code = 401
        /\ req[o].enqueue = "ok"

\* C6: if the idempotency store is unreachable, check_and_set returns False
\* (new) without raising, and the receiver goes on to the dispatch step and
\* answers with the success response: the event is enqueued unless the
\* enqueue itself fails.
C6_FailOpen ==
    \A r \in Requests :
        req[r].store_error # "none" =>
            /\ req[r].store_error = "returned"
            /\ req[r].is_duplicate = "false"
            /\ req[r].pc \in {"dispatch", "done"}
            /\ req[r].pc = "done" =>
                  /\ req[r].resp = OkResponse(req[r].event_id)
                  /\ req[r].enqueue \in {"ok", "failed"}
                  /\ req[r].enqueue = "ok" => \E m \in queue : m.req = r

\* The store was unreachable for a request whose event was already marked, and
\* the request was dispatched all the same.
C6_Witness ==
    \E r \in Requests :
        /\ req[r].store_error = "returned"
        /\ redis[req[r].event_id].value = "processing"
        /\ req[r].pc = "done" /\ req[r].enqueue = "ok"

\* C7: if the enqueue fails, the response is the same success outcome (200,
\* status ok, event_id) as after a successful dispatch.
C7_DispatchErrorSameResponse ==
    \A r \in Requests :
        (req[r].pc = "done" /\ req[r].enqueue \in {"ok", "failed"}) =>
            /\ req[r].resp.code = 200
            /\ req[r].resp.status = "ok"
            /\ req[r].resp.event_id = req[r].event_id
            /\ ~req[r].resp.duplicate

\* One request's enqueue failed, another's succeeded, and both were answered.
C7_Witness ==
    \E r, o \in Requests :
        /\ req[r].pc = "done" /\ req[r].enqueue = "failed"
        /\ req[o].pc = "done" /\ req[o].enqueue = "ok"
        /\ req[r].resp.code = req[o].resp.code

(***************************************************************************)
(* Properties of the worker pipeline                                        *)
(***************************************************************************)

\* The task's event passed the gate: no other task carries its event_id.
GatePassed(t) ==
    /\ tasks[t].state # "none"
    /\ \A o \in Tasks \ {t} : tasks[o].state = "none" \/ tasks[o].event_id # tasks[t].event_id

\* The task has left the worker for good with the database configured.
Finished(t) == tasks[t].state \in {"success", "failed"}

C11_TransientSendRetried ==
    \A t \in Tasks : tasks[t].state = "success" => tasks[t].send # "raise"

\* The run of task t stands before its audit write and commit.
AtCommit(t) == tasks[t].state = "running" /\ tasks[t].pc = "commit"

\* The AI/tool-call step or the send of the run failed.
AIOrSendFailed(t) ==
    \/ tasks[t].ai \in {"openai_error", "search_error"}
    \/ tasks[t].send \in {"raise", "None"}

\* Nothing but the AI step stands in the way of the commit: the user upsert
\* went through, and neither the user row nor the audit row is already there.
NoOtherObstacle(t) ==
    /\ tasks[t].sess.user # "none"
    /\ ~(tasks[t].sess.user = "insert" /\ users[tasks[t].user_id] # NoUser)
    /\ tasks[t].event_id \notin {a.event_id : a \in auditLog}

\* C12: in every pipeline run, a failure of the AI/tool-call step or of the
\* send does not prevent the audit write: with nothing else in the way, the
\* run's audit record for the event_id can still be written and committed.
C12_AuditNotPrevented ==
    \A t \in Tasks :
        AtCommit(t) /\ AIOrSendFailed(t) /\ NoOtherObstacle(t) => ~CommitMustFail(t)

\* The run of task t ends in this step, by a commit or by an exception.
RunEnds(t) == AtCommit(t) /\ tasks'[t].pc = "none"

\* C13: the user upsert of a run takes effect whatever happens later in the
\* run: when a run that created or refreshed its user ends, by commit or by
\* failure, the committed user row carries the time the upsert set.
C13_UpsertNotRolledBack ==
    [][\A t \in Tasks :
          RunEnds(t) /\ tasks[t].sess.user # "none" =>
              users'[tasks[t].user_id] = tasks[t].sess.userTime]_vars

\* The states in which a task has left the worker for good.
TerminalStates == {"success", "failed", "unconfigured"}

\* C15: the wrapper retries the whole pipeline only when a run ended in an
\* exception, and at most 3 times: a task's pipeline is executed at most 4
\* times, a task whose fourth run fails is abandoned, and every task that was
\* handed to the worker eventually reaches a terminal state.
C15_BoundedRetries ==
    /\ [](\A t \in Tasks : tasks[t].runs <= 4 /\ tasks[t].retries <= 3)
    /\ [][\A t \in Tasks :
            /\ tasks'[t].retries # tasks[t].retries =>
                  /\ RunEnds(t)
                  /\ tasks'[t].retries = tasks[t].retries + 1
                  /\ tasks'[t].state = "queued"
                  /\ users' = users /\ auditLog' = auditLog
            /\ RunEnds(t) /\ tasks[t].runs = 4 => tasks'[t].state \in {"success", "failed"}]_vars
    /\ \A t \in Tasks :
            [](tasks[t].state # "none" => <>(tasks[t].state \in TerminalStates))

\* A task abandoned after its fourth run failed.
C15_Witness ==
    \E t \in Tasks :
        tasks[t].state = "failed" /\ tasks[t].runs = 4 /\ tasks[t].retries = 3

\* C16: verify_tiktok_signature returns true exactly when the secret and the
\* signature are non-empty and the signature equals the hex HMAC-SHA256 of the
\* raw body under the secret; an absent or empty secret, an absent, empty or
\* non-string signature and an internal error all give false.
C16_VerifyIffDigest ==
    callOut.fn = "verify_tiktok_signature" =>
        /\ callOut.value \in BOOLEAN
        /\ callOut.value =
              /\ callIn.client_secret \notin {"None", ""}
              /\ callIn.signature.kind \notin {"absent", "empty", "nonstring", "nonascii"}
              /\ callIn.signature = HexDigest(callIn.client_secret, callIn.raw_body)

\* A call that verified a digest as genuine.
C16_Witness ==
    /\ callOut.fn = "verify_tiktok_signature"
    /\ callOut.value = TRUE
    /\ callIn.signature = HexDigest(WebhookSecret, callIn.raw_body)

\* C17: the handshake answers with the challenge token verbatim when the mode
\* is "subscribe", whatever the verify token, and with 400 otherwise.
C17_EchoVerbatim ==
    callOut.fn = "tiktok_webhook_verify" =>
        IF callIn.hub_mode = Given("subscribe")
        THEN callOut.resp.code = 200 /\ callOut.resp.body = callIn.hub_challenge.value
        ELSE callOut.resp.code = 400

\* text contains query as a substring, without regard to case.
Contains(text, query) ==
    \E i \in 1..(Len(text) + 1) :
        /\ i + Len(query) - 1 <= Len(text)
        /\ \A k \in 1..Len(query) : Lower(text[i + k - 1]) = Lower(query[k])

\* The rows the claim has a search for query select: AVAILABLE and with the
\* query contained in the name or in the description.
Selected(table, query) ==
    {i \in ItemIds :
        /\ table[i].status = "AVAILABLE"
        /\ \/ Contains(table[i].name, query)
           \/ ~table[i].description.null /\ Contains(table[i].description.text, query)}

\* items is a newest-first list of min(limit, number of rows of ids) rows of
\* ids, none of them older than a row of ids left out.
FirstNewest(table, ids, limit, items) ==
    /\ Len(items) = Min(limit, Cardinality(ids))
    /\ \A k \in 1..Len(items) : items[k] \in ids
    /\ \A j, k \in 1..Len(items) : j < k =>
          items[j] # items[k] /\ table[items[j]].created_at >= table[items[k]].created_at
    /\ \A i \in ids : (\A k \in 1..Len(items) : items[k] # i) =>
          \A k \in 1..Len(items) : table[items[k]].created_at >= table[i].created_at

\* C18: search_available_items(query, limit) returns exactly the first limit
\* rows, newest first by created_at, of the AVAILABLE rows whose name or
\* description contains the query without regard to case; no RESERVED or SOLD
\* row is returned, and the empty query selects every AVAILABLE row.
C18_SearchContains ==
    callOut.fn = "search_available_items" =>
        /\ FirstNewest(callIn.table, Selected(callIn.table, callIn.query), callIn.limit,
                       callOut.items)
        /\ \A k \in 1..Len(callOut.items) :
              callIn.table[callOut.items[k]].status = "AVAILABLE"

FirstFailure(r) ==
    IF ~settings.REDIS_URL THEN 503
    ELSE IF ~settings.is_local /\ BadSignature(r) THEN 401
    ELSE IF ~ParsePayload(req[r].body).ok THEN 400
    ELSE 200

\* C20: each POST takes its steps in order and stops at the first that fails:
\* backing-service check (503), signature verification (401, skipped in local
\* mode), payload parse (400), event_id resolution, dedupe, dispatch, 200. A
\* request with a bad signature and a malformed body gets 401; the store is
\* written only for a request whose payload has parsed, and a task is
\* dispatched only after the dedupe step said the event is new.
C20_StrictOrder ==
    /\ [](\A r \in Requests :
            req[r].pc # "idle" =>
                IF FirstFailure(r) # 200
                THEN /\ req[r].pc = "done"
                     /\ req[r].resp.code = FirstFailure(r)
                     /\ NoTrace(r) /\ req[r].store_error = "none"
                     /\ req[r].event_id = "none"
                ELSE /\ req[r].event_id = ResolveEventId(ParsePayload(req[r].body))
                     /\ req[r].pc = "gate" <=> req[r].is_duplicate = "unset"
                     /\ req[r].enqueue # "none" => req[r].is_duplicate = "false"
                     /\ req[r].pc = "dispatch" =>
                           req[r].is_duplicate = "false" /\ req[r].enqueue = "none"
                     /\ req[r].pc = "done" =>
                           /\ req[r].resp.code = 200
                           /\ req[r].resp.duplicate <=> req[r].is_duplicate = "true"
                           /\ ~req[r].resp.duplicate => req[r].enqueue # "none")
    /\ [][\A e \in EventIds :
            redis'[e].value = "processing" /\ redis[e].value = "nil" =>
                \E r \in Requests :
                    /\ req[r].pc = "gate" /\ req'[r].pc # "gate"
                    /\ req[r].event_id = e
                    /\ ParsePayload(req[r].body).ok]_vars

\* Not local, store configured: a request with a bad signature and a body that
\* does not parse was answered 401.
C20_Witness ==
    \E r \in Requests :
        /\ settings.REDIS_URL /\ ~settings.is_local
        /\ req[r].pc = "done"
        /\ BadSignature(r) /\ ~ParsePayload(req[r].body).ok
        /\ req[r].resp.code = 401

\* C21: dispatch is non-blocking. No step of the receiver (a step that moves a
\* request) starts or advances a pipeline run, calls the AI, sends a message
\* or writes the pipeline's tables; and a request waiting at the dispatch step
\* can always complete it, whatever the workers are doing, so the response
\* does not wait for, or depend on, the pipeline of its event.
ReceiverStep == req' # req

PipelineUntouched ==
    /\ tasks' = tasks
    /\ users' = users
    /\ auditLog' = auditLog
    /\ sendOut' = sendOut

C21_NonBlockingDispatch ==
    /\ [][ReceiverStep => PipelineUntouched]_vars
    /\ [](\A r \in Requests : req[r].pc = "dispatch" => ENABLED Dispatch(r))

\* A request has got its 200 for an enqueued event while no worker has taken
\* the event's task yet.
C21_Witness ==
    \E r \in Requests :
        /\ req[r].pc = "done"
        /\ req[r].enqueue = "ok"
        /\ req[r].resp = OkResponse(req[r].event_id)
        /\ \A t \in Tasks : tasks[t].req # r \/ tasks[t].runs = 0

\* The requests whose payload parsed and whose dedupe key was resolved.
Resolved == {r \in Requests : req[r].pc \in {"gate", "dispatch", "done"}
                               /\ req[r].resp.status # "error"}

\* The payload carries an event_id (None and the empty string are not one).
CarriesEventId(body) ==
    ParsePayload(body).event_id # "None" /\ ParsePayload(body).event_id # ""

\* C22: a payload's event_id, when it carries one, is the dedupe key unchanged;
\* when it carries none the key is "unknown_" followed by the payload's
\* timestamp, so two deliveries of the same body resolve to the same key, and
\* with the store reachable and the key unexpired exactly one of them is taken
\* as new: every other one is answered as a duplicate.
C22_SynthesizedKey ==
    /\ \A r \in Resolved :
          req[r].event_id = IF CarriesEventId(req[r].body)
                            THEN ParsePayload(req[r].body).event_id
                            ELSE "unknown_" \o ParsePayload(req[r].body).timestamp
    /\ \A r1, r2 \in Resolved :
          req[r1].body = req[r2].body => req[r1].event_id = req[r2].event_id
    /\ \A b \in Bodies :
          LET answered == {r \in Resolved : req[r].body = b
                                            /\ req[r].is_duplicate # "unset"} IN
          ( /\ ~CarriesEventId(b)
            /\ answered # {}
            /\ StoreReachableWithinTtl(ResolveEventId(ParsePayload(b))) )
          => Cardinality({r \in answered : req[r].is_duplicate = "false"}) = 1

\* The same payload without event_id was delivered twice; the first delivery
\* was dispatched and the retry was answered as a duplicate of "unknown_100".
C22_Witness ==
    \E r1, r2 \in Requests :
        /\ r1 # r2
        /\ req[r1].body = BodyNoId
        /\ req[r2].body = BodyNoId
        /\ req[r1].pc = "done"
        /\ req[r1].enqueue = "ok"
        /\ req[r2].resp = DuplicateResponse("unknown_100")

\* A reserve_item call of transaction t returns in this step.
Returns(t) == Len(tx'[t].calls) = Len(tx[t].calls) + 1

\* The call that returns in this step: its sku, result and whether it failed.
Returned1(t) == tx'[t].calls[Len(tx'[t].calls)]

\* Transaction t holds the row lock of s, the row exists, and the status the
\* transaction sees for it is AVAILABLE.
LockedAvailable(t, s) ==
    /\ inventory[s] # NoRow
    /\ rowLock[s] = t
    /\ SessionView(t, s) = "AVAILABLE"

\* What a returning reserve_item call did: a call that met no error returns
\* True iff it holds the lock on an existing AVAILABLE row, and then the row is
\* RESERVED in its session; a call that returns False changes no status, in
\* the session or in the table.
ReserveEffect(t) ==
    LET c == Returned1(t) IN
    /\ ~c.err => (c.ok <=> LockedAvailable(t, c.sku))
    /\ c.ok => c.sku \in tx'[t].dirty
    /\ ~c.ok => tx'[t].dirty = tx[t].dirty
    /\ inventory' = inventory

\* C23 as stated: reserve_item returns True iff it holds the lock on an
\* existing AVAILABLE row, which it then sets to RESERVED; a call returning
\* False changes no status; and once a reserve of a sku has returned True,
\* every later reserve of that sku returns False.
C23_ReserveThenAlwaysFalse ==
    [][\A t \in Tx : Returns(t) =>
          /\ ReserveEffect(t)
          /\ Returned1(t).ok => Winners(Returned1(t).sku) = {}]_vars

\* C23, amended: as above, but a later reserve of the sku returns False only
\* while the transaction that was told True has not been rolled back (it is
\* still open, or it committed).
C23_ReserveSemantics ==
    [][\A t \in Tx : Returns(t) =>
          /\ ReserveEffect(t)
          /\ Returned1(t).ok => Holders(Returned1(t).sku) = {}]_vars

\* A sku that was AVAILABLE was reserved by a transaction that committed; the
\* same transaction's second reserve of it, and another transaction's reserve
\* after the commit, both returned False without error.
C23_Witness ==
    \E s \in Skus : \E t1, t2 \in Tx :
        /\ t1 # t2
        /\ inventory0[s] = "AVAILABLE"
        /\ tx[t1].pc = "committed"
        /\ Len(tx[t1].calls) = 2
        /\ tx[t1].calls[1] = [sku |-> s, ok |-> TRUE, err |-> FALSE]
        /\ tx[t1].calls[2] = [sku |-> s, ok |-> FALSE, err |-> FALSE]
        /\ tx[t2].pc = "committed"
        /\ tx[t2].calls = <<[sku |-> s, ok |-> FALSE, err |-> FALSE]>>

\* The open transactions that have read the row of s with FOR UPDATE.
LockHolders(s) ==
    {t \in Tx :
        /\ tx[t].pc \notin {"committed", "rolledback"}
        /\ inventory[s] # NoRow
        /\ \/ tx[t].pc = "check" /\ tx[t].sku = s
           \/ \E i \in DOMAIN tx[t].calls : tx[t].calls[i].sku = s /\ ~tx[t].calls[i].err}

\* A transaction that committed after reserve_item returned True to it for s.
CommittedWinner(s) == {w \in Tx : tx[w].pc = "committed" /\ s \in tx[w].dirty}

\* At most one open transaction has read the row of s under the lock, and it
\* is the one holding the lock.
OneLockHolder ==
    \A s \in Skus :
        /\ Cardinality(LockHolders(s)) <= 1
        /\ LockHolders(s) = IF rowLock[s] = 0 THEN {} ELSE {rowLock[s]}

\* The status of an existing row is read only with the lock held.
LockBeforeRead ==
    \A t \in Tx :
        (tx[t].pc = "select" /\ tx'[t].pc = "check" /\ tx'[t].item # NoRow)
            => rowLock'[tx[t].sku] = t

\* The lock leaves its holder only when the holder's transaction ends.
ReleaseAtEnd ==
    \A s \in Skus : \A t \in Tx :
        (rowLock[s] = t /\ rowLock'[s] # t)
            => tx'[t].pc \in {"committed", "rolledback"} /\ rowLock'[s] = 0

\* Who reads the row of s after the winner committed reads RESERVED, and the
\* call then returns False.
AfterWinnerReserved ==
    \A t \in Tx :
        /\ ( /\ tx[t].pc = "select" /\ tx'[t].pc = "check"
             /\ CommittedWinner(tx[t].sku) # {} )
           => tx'[t].item = "RESERVED"
        /\ ( /\ tx[t].pc = "check" /\ Returns(t)
             /\ CommittedWinner(tx[t].sku) # {} )
           => ~Returned1(t).ok

\* C24: at most one transaction at a time holds the row lock of a sku; the
\* lock is taken before the status is read and is released only when the
\* holder's transaction ends, so claimants of one sku are served one after the
\* other in lock-acquisition order, and a claimant that gets the lock after the
\* winner committed reads RESERVED and gets False.
C24_RowLockOrder ==
    /\ []OneLockHolder
    /\ [][LockBeforeRead /\ ReleaseAtEnd /\ AfterWinnerReserved]_vars

\* The winner of a sku committed; a second claimant now holds the lock and has
\* read RESERVED, while a third waits for the lock at its SELECT FOR UPDATE.
C24_Witness ==
    \E s \in Skus : \E t1, t2, t3 \in Tx :
        /\ inventory0[s] = "AVAILABLE"
        /\ t1 \in CommittedWinner(s)
        /\ rowLock[s] = t2
        /\ tx[t2].pc = "check"
        /\ tx[t2].item = "RESERVED"
        /\ t3 \notin {t1, t2}
        /\ tx[t3].pc = "select"
        /\ tx[t3].sku = s

\* check_and_set of request r returns in this step, having reached the store.
ChecksStore(r) ==
    /\ req[r].pc = "gate"
    /\ req'[r].pc # "gate"
    /\ req'[r].store_error = "none"

\* C25: a check_and_set that finds the key of its event_id present returns
\* True and leaves the whole store as it was, the key's value and remaining
\* TTL included; so the key is written by check_and_set only when it is
\* absent, at most once until it expires.
C25_DuplicateLeavesKey ==
    [][\A r \in Requests : ChecksStore(r) =>
          LET e == req[r].event_id IN
          /\ redis[e].value # "nil" =>
                (req'[r].is_duplicate = "true" /\ redis' = redis)
          /\ redis'[e] # redis[e] =>
                (redis[e] = NoKey /\ req'[r].is_duplicate = "false")
          /\ \A o \in EventIds \ {e} : redis'[o] = redis[o]]_vars

\* One delivery of an event was taken as new and another as a duplicate, and
\* the key still is the marker the first one wrote, with half its TTL left.
C25_Witness ==
    \E r1, r2 \in Requests :
        /\ r1 # r2
        /\ req[r1].event_id = req[r2].event_id
        /\ req[r1].is_duplicate = "false" /\ req[r1].store_error = "none"
        /\ req[r2].is_duplicate = "true" /\ req[r2].store_error = "none"
        /\ redis[req[r1].event_id] =
              [value |-> "processing", ttl |-> IdempotencyTtl \div 2]

\* A mark_completed call returns in this step.
MarksCompleted == callOut' # callOut /\ callOut'.fn = "mark_completed"

\* The fast-path key of e holds a completion marker.
Completed(e) == redis[e].value \in {"completed:" \o st : st \in CompletionStatuses}

\* C26: mark_completed never raises and is no step of any request; when the
\* store cannot be reached the store is unchanged; when it can, the key of the
\* event holds completed:<status> with a fresh 600-second TTL afterwards,
\* whether or not it existed, and no other key changes; and a check_and_set
\* that finds a completion marker returns True and leaves it alone.
C26_MarkCompletedBestEffort ==
    [][ /\ MarksCompleted =>
            /\ ~callOut'.raised
            /\ req' = req /\ queue' = queue
            /\ ~callOut'.reachable => redis' = redis
            /\ callOut'.reachable =>
                 /\ redis'[callOut'.event_id] =
                       [value |-> "completed:" \o callOut'.status, ttl |-> 600]
                 /\ \A o \in EventIds \ {callOut'.event_id} : redis'[o] = redis[o]
        /\ \A r \in Requests :
             (ChecksStore(r) /\ Completed(req[r].event_id)) =>
                 (req'[r].is_duplicate = "true" /\ redis' = redis) ]_vars

\* mark_completed created the key of an event no delivery had been taken as
\* new for, and a delivery of that event was then answered as a duplicate.
C26_Witness ==
    /\ callOut.fn = "mark_completed"
    /\ callOut.reachable
    /\ Completed(callOut.event_id)
    /\ \E r \in Requests :
          /\ req[r].event_id = callOut.event_id
          /\ req[r].is_duplicate = "true"
          /\ req[r].store_error = "none"
    /\ \A r \in Requests :
          req[r].event_id = callOut.event_id => req[r].is_duplicate # "false"

\* The first of the optional values that is present, else the fallback.
FirstPresent(options, fallback) ==
    IF \E i \in DOMAIN options : options[i].present
    THEN options[CHOOSE i \in DOMAIN options :
                    options[i].present /\ \A j \in 1..(i - 1) : ~options[j].present].value
    ELSE fallback

\* The keys of data.message when it is a dict, none otherwise.
MessageKeys(payload) ==
    IF payload.message.kind = "dict" THEN payload.message.keys ELSE NoMessageKeys

\* C27: normalization takes the first extractor that matches. sender_id is
\* data.sender_id, else data.message.from_user_id, else the entry path's
\* sender, else "unknown"; message_text is the flat data.text, else
\* data.message's content, text or body, else the entry path's text, else "";
\* and the payload is dispatched with these values whatever they are.
C27_ExtractorOrder ==
    callOut.fn = "normalize" =>
        LET p == callIn.payload IN
        /\ callOut.user_id =
              FirstPresent(<<p.data_sender_id, MessageKeys(p).from_user_id,
                             p.entry_sender>>, "unknown")
        /\ callOut.text =
              FirstPresent(<<p.data_text, MessageKeys(p).content, MessageKeys(p).text,
                             MessageKeys(p).body, p.entry_text>>, "")
        /\ callOut.dispatched

\* The positions of the run's trace at which event ev happened.
At(ev) == {k \in DOMAIN callOut.trace : callOut.trace[k] = ev}

ModelCalls == At("model_with_tools") \cup At("model_no_tools")

\* handle_conversation has returned without raising.
ConversationReturned ==
    callOut.pc \in {"audit", "done"} /\ callOut.raised = "none"

ExternalFailure ==
    callOut.raised \in {"openai", "arguments", "final_text", "search", "send"}

\* C29: when the model asked for search_inventory and the search ran, then,
\* unless a call to the outside failed, every search result was fed back to
\* the model, the second model call gave the final text, and the reply was
\* sent; this for empty and for non-empty result lists alike.
C29_SearchResultsReplied ==
    ( /\ callOut.fn = "process_message"
      /\ callOut.pc \in {"audit", "done"}
      /\ At("search") # {}
      /\ ~ExternalFailure )
    => /\ callOut.fed = Cardinality(At("search"))
       /\ At("model_no_tools") # {}
       /\ At("send") # {}

\* A step of the pipeline run.
RunStep == callOut' # callOut

\* A transaction commits after reserve_item returned True to it.
ReserveCommits(t) ==
    /\ tx[t].pc = "returned" /\ tx'[t].pc = "committed"
    /\ tx[t].dirty # {}
    /\ \A s \in Skus : inventory'[s] # inventory[s] =>
          (s \in tx[t].dirty /\ inventory[s] = "AVAILABLE" /\ inventory'[s] = "RESERVED")

\* C30: no step of the pipeline run (upsert, model calls, search, send, audit
\* and commit) changes the inventory table, a row lock or a reservation
\* transaction, and the search step changes no table at all; the inventory
\* table changes only when a transaction that reserve_item answered True
\* commits.
C30_OnlyReserveChangesStatus ==
    [][ /\ RunStep => (inventory' = inventory /\ rowLock' = rowLock /\ tx' = tx)
        /\ (RunStep /\ callOut.fn = "process_message" /\ callOut.pc = "tools") =>
              (users' = users /\ auditLog' = auditLog /\ redis' = redis)
        /\ inventory' # inventory => \E t \in Tx : ReserveCommits(t) ]_vars

\* The run is over: it searched, and its user row and audit row are committed;
\* beside it a reservation has committed and changed the table.
C30_Witness ==
    /\ callOut.fn = "process_message"
    /\ callOut.pc = "done"
    /\ At("search") # {}
    /\ auditLog # {}
    /\ users[callIn.user_id] # NoUser
    /\ inventory # inventory0
    /\ tx[Reserver].pc = "committed"

\* Request r is answered 503, 401 or 400 in this step.
Rejected(r) == req[r].pc = "idle" /\ req'[r].resp.status = "error"

\* C31: a POST answered 503, 401 or 400 changes nothing but its own request:
\* no idempotency key, no queue entry, no task; so a delivery that is the
\* first accepted one to check its event_id, with the store reachable and the
\* key never expired, is taken as new however many deliveries of the event
\* were rejected before.
C31_RejectedLeavesNoTrace ==
    /\ [][\A r \in Requests : Rejected(r) =>
            /\ req'[r].resp.code \in {503, 401, 400}
            /\ redis' = redis /\ expired' = expired /\ queue' = queue
            /\ tasks' = tasks /\ auditLog' = auditLog]_vars
    /\ [][\A r \in Requests :
            ( /\ ChecksStore(r)
              /\ req[r].event_id \notin expired
              /\ \A o \in Requests \ {r} :
                    req[o].event_id = req[r].event_id => req[o].is_duplicate = "unset" )
            => req'[r].is_duplicate = "false"]_vars

\* A delivery of evt_1 was rejected with 401, and another delivery of the same
\* body, signed correctly, was then taken as new and enqueued.
C31_Witness ==
    \E r1, r2 \in Requests :
        /\ req[r1].body = BodyEvt1 /\ req[r1].resp.code = 401
        /\ req[r2].body = BodyEvt1 /\ req[r2].pc = "done"
        /\ req[r2].is_duplicate = "false" /\ req[r2].store_error = "none"
        /\ req[r2].enqueue = "ok"
        /\ \E m \in queue : m.req = r2 /\ m.event_id = "evt_1"

\* The enqueue of request r fails in this step.
EnqueueFails(r) == req[r].pc = "dispatch" /\ req'[r].enqueue = "failed"

\* Some delivery of e set the key and then failed to enqueue.
DroppedAtEnqueue(e) ==
    \E r \in Deliveries(e) :
        req[r].is_duplicate = "false" /\ req[r].store_error = "none"
                                      /\ req[r].enqueue = "failed"

\* C32: a failed enqueue leaves the store as it is, the event's key included;
\* so while the key has not expired and the store is reachable, every other
\* delivery of the event is answered as a duplicate and dispatches nothing,
\* and the event has no queue entry, no task and no audit record.
C32_DroppedEnqueueStaysDropped ==
    /\ [][\A r \in Requests : EnqueueFails(r) =>
            (redis' = redis /\ queue' = queue /\ tasks' = tasks)]_vars
    /\ [](\A e \in EventIds :
            (DroppedAtEnqueue(e) /\ StoreReachableWithinTtl(e)) =>
                /\ redis[e].value = "processing"
                /\ \A r \in Returned(e) :
                      \/ req[r].is_duplicate = "true" /\ req[r].enqueue = "none"
                      \/ req[r].is_duplicate = "false" /\ req[r].enqueue = "failed"
                /\ Cardinality({r \in Returned(e) : req[r].is_duplicate = "false"}) = 1
                /\ TasksFor(e) = {}
                /\ \A t \in Tasks : tasks[t].event_id # e
                /\ \A a \in auditLog : a.event_id # e)

\* The first delivery of an event set the key and failed to enqueue; a
\* redelivery within the TTL has been answered as a duplicate.
C32_Witness ==
    \E e \in EventIds : \E r1, r2 \in Deliveries(e) :
        /\ StoreReachableWithinTtl(e)
        /\ req[r1].is_duplicate = "false" /\ req[r1].enqueue = "failed"
        /\ req[r2].pc = "done" /\ req[r2].resp = DuplicateResponse(e)

\* The event has a committed audit record.
Audited(e) == \E a \in auditLog : a.event_id = e

\* C33: the dedupe step looks at the fast-path key only. A check_and_set that
\* reaches the store answers duplicate exactly when the key is there, whether
\* or not the audit log has the event; so a redelivery after the key expired
\* is new and goes on to dispatch even though the event's audit record is
\* committed, and no step of a request reads or writes the audit log.
C33_OnlyFastPathConsulted ==
    [][\A r \in Requests :
          /\ ChecksStore(r) =>
                /\ req'[r].is_duplicate = "true" <=> redis[req[r].event_id].value # "nil"
                /\ ( redis[req[r].event_id].value = "nil" /\ Audited(req[r].event_id) )
                      => (req'[r].is_duplicate = "false" /\ req'[r].pc = "dispatch")
          /\ req'[r] # req[r] => auditLog' = auditLog]_vars

\* An event was processed and its audit record committed; its key expired; a
\* redelivery was then taken as new and enqueued a second task message.
C33_Witness ==
    \E e \in EventIds : \E r1, r2 \in Deliveries(e) :
        /\ r1 # r2
        /\ Audited(e)
        /\ e \in expired
        /\ req[r1].enqueue = "ok" /\ req[r2].enqueue = "ok"
        /\ req[r1].is_duplicate = "false" /\ req[r1].store_error = "none"
        /\ req[r2].is_duplicate = "false" /\ req[r2].store_error = "none"
        /\ Cardinality(TasksFor(e)) = 2

\* The run of task t executes its AI + send step in this step.
RunsAI(t) == tasks[t].pc = "ai" /\ tasks'[t].pc = "commit"

RollsBack(t) == tx[t].pc = "returned" /\ tx'[t].pc = "rolledback"

\* The transactions reserve_item returned True to for sku s.
ToldTrue(s) == {c[1] : c \in Winners(s)}

\* C36: a True from reserve_item lasts only if the caller's transaction
\* commits. When a transaction that was told True for a sku ends without
\* committing, the table is unchanged, the sku's committed status is still
\* AVAILABLE and its row lock is free; a reserve of a sku that started
\* AVAILABLE and that no transaction holds as reserved (each one told True
\* has rolled back) returns True unless it meets an error. So several
\* transactions can have been told True for one sku, but all of them except
\* at most one have rolled back.
C36_TrueLastsWithTransaction ==
    /\ [][\A t \in Tx :
            /\ RollsBack(t) =>
                  /\ inventory' = inventory
                  /\ \A s \in tx[t].dirty :
                        inventory'[s] = "AVAILABLE" /\ rowLock[s] = t /\ rowLock'[s] = 0
            /\ ( /\ Returns(t)
                 /\ ~Returned1(t).err
                 /\ inventory0[Returned1(t).sku] = "AVAILABLE"
                 /\ Holders(Returned1(t).sku) = {} ) => Returned1(t).ok]_vars
    /\ [](\A s \in Skus :
            Cardinality({t \in ToldTrue(s) : tx[t].pc # "rolledback"}) <= 1)

\* Three transactions were told True for one sku: the first two rolled back
\* and the third committed, leaving the sku RESERVED.
C36_Witness ==
    \E s \in Skus : \E t1, t2, t3 \in Tx :
        /\ t1 # t2 /\ t3 \notin {t1, t2}
        /\ {t1, t2, t3} \subseteq ToldTrue(s)
        /\ tx[t1].pc = "rolledback" /\ tx[t2].pc = "rolledback"
        /\ tx[t3].pc = "committed"
        /\ inventory[s] = "RESERVED"

\* The timestamp the payload of request r carries ("None" when it has none).
TimestampOf(r) == ParsePayload(req[r].body).timestamp

\* C37: events without an event_id are keyed by their timestamp alone. Two
\* of them get the same dedupe key exactly when they carry the same timestamp
\* or both carry none, and the key of an event without a timestamp is
\* "unknown_None"; so with the store reachable and the key unexpired, of all
\* the deliveries answered under one such key, whichever events they carry,
\* exactly one is taken as new and every other one is answered as a duplicate
\* and puts no task on the queue.
C37_SameTimestampCollides ==
    /\ \A r1, r2 \in Resolved :
          req[r1].event_id = req[r2].event_id <=> TimestampOf(r1) = TimestampOf(r2)
    /\ \A r \in Resolved :
          TimestampOf(r) = "None" => req[r].event_id = "unknown_None"
    /\ \A e \in IdlessEventIds :
          (StoreReachableWithinTtl(e) /\ Returned(e) # {}) =>
             /\ Cardinality({r \in Returned(e) : req[r].is_duplicate = "false"}) = 1
             /\ \A r \in Returned(e) :
                   req[r].is_duplicate = "true" =>
                      /\ req[r].pc = "done"
                      /\ req[r].resp = DuplicateResponse(e)
                      /\ req[r].enqueue = "none"
                      /\ \A m \in queue : m.req # r

\* Two events from different senders, neither with an event_id nor a
\* timestamp, were delivered: the first was dispatched, the second was
\* answered as a duplicate of "unknown_None" and the queue holds no task for
\* its sender.
C37_Witness ==
    \E r1, r2 \in Requests :
        /\ req[r1].body = BodyNoTs /\ req[r2].body = BodyNoTs2
        /\ req[r1].pc = "done" /\ req[r1].enqueue = "ok"
        /\ req[r2].resp = DuplicateResponse("unknown_None")
        /\ \A m \in queue : m.user_id # ParsePayload(BodyNoTs2).sender_id

\* The run of task t found no user row and added a new User, and a row for
\* the sender has been committed since.
LostInsert(t) ==
    /\ AtCommit(t)
    /\ tasks[t].sess.user = "insert"
    /\ users[tasks[t].user_id] # NoUser

\* C38: when runs for the same unseen sender both find no user and both add
\* a new User, only one INSERT is ever committed: a run that added a User
\* commits only while the sender still has no row, and a run that ends after
\* another one committed the row fails its transaction, leaving the users
\* table and the audit log as they were (its event gets no audit record from
\* this attempt), and the wrapper queues the task again while it has retries
\* left and abandons it otherwise.
C38_InsertConflict ==
    [][\A t \in Tasks :
          /\ (RunEnds(t) /\ LostInsert(t)) =>
                /\ users' = users /\ auditLog' = auditLog
                /\ tasks'[t].state = IF tasks[t].retries < 3 THEN "queued" ELSE "failed"
                /\ tasks'[t].retries = IF tasks[t].retries < 3
                                       THEN tasks[t].retries + 1 ELSE 3
          /\ (RunEnds(t) /\ tasks[t].sess.user = "insert" /\ tasks'[t].state = "success")
                => users[tasks[t].user_id] = NoUser]_vars

\* Two tasks for different events of one sender: one committed in its first
\* run and created the sender's row; the other, which had added the same User
\* before that commit, lost its first run, was queued again with one retry
\* counted and stands in its second run, having found the row this time, while
\* its event has no audit record.
C38_Witness ==
    \E t1, t2 \in Tasks :
        /\ tasks[t1].event_id # tasks[t2].event_id
        /\ tasks[t1].user_id = tasks[t2].user_id
        /\ tasks[t1].state = "success" /\ tasks[t1].runs = 1
        /\ users[tasks[t1].user_id] # NoUser
        /\ tasks[t2].state = "running" /\ tasks[t2].runs = 2 /\ tasks[t2].retries = 1
        /\ tasks[t2].pc = "commit" /\ tasks[t2].sess.user = "update"
        /\ ~Audited(tasks[t2].event_id)

\* Task t is through: its run committed and its event has an audit record, or
\* it was abandoned after its fourth run, all three retries used up.
AuditedOrAbandoned(t) ==
    \/ tasks[t].state = "success" /\ Audited(tasks[t].event_id)
    \/ tasks[t].state = "failed" /\ tasks[t].runs = 4 /\ tasks[t].retries = 3

\* C39: with the database configured, a worker that takes every queued task
\* and runs whose steps all come to an end, every task that was put on the
\* queue eventually has its pipeline executed and eventually is through: its
\* event has a committed audit record, or the task was abandoned after the
\* retries were used up.
C39_EnqueuedEventSettles ==
    \A t \in Tasks :
        /\ [](dbConfigured /\ tasks[t].state # "none" => <>(tasks[t].runs >= 1))
        /\ [](dbConfigured /\ tasks[t].state # "none" => <>[]AuditedOrAbandoned(t))

\* With the database configured one task committed and its event has its
\* audit record, and another task was abandoned after four failed runs.
C39_Witness ==
    /\ dbConfigured
    /\ \E t1, t2 \in Tasks :
          /\ tasks[t1].state = "success" /\ Audited(tasks[t1].event_id)
          /\ tasks[t1].runs >= 2
          /\ tasks[t2].state = "failed" /\ tasks[t2].runs = 4
          /\ ~Audited(tasks[t2].event_id)

\* C14: for every user, the committed last_interaction_at never decreases,
\* over any sequence and interleaving of pipeline runs for that user.
C14_LastInteractionMonotone ==
    [][\A u \in UserIds : users[u] # NoUser => users'[u] >= users[u]]_vars

(***************************************************************************)
(* Specifications                                                           *)
(***************************************************************************)

InitSpecInv == InitInv /\ IdleSend /\ IdleGate /\ IdleWorker

SpecInv == InitSpecInv /\ [][NextInv]_vars

InitSpecSend == InitSend /\ IdleInv /\ IdleGate /\ IdleWorker

SpecSend == InitSpecSend /\ [][NextSend]_vars

InitSpec == InitGate /\ IdleInv /\ IdleSend /\ IdleWorker

Spec == InitSpec /\ [][NextGate]_vars

InitSpecWorker == InitWorker /\ IdleInv /\ IdleSend /\ IdleGate

InitSpecVerify == InitVerify /\ IdleInv /\ IdleSend /\ IdleGate /\ IdleWorkerDb

SpecVerify == InitSpecVerify /\ [][NextVerify]_vars

InitSpecSearch == InitSearch /\ IdleInv /\ IdleSend /\ IdleGate /\ IdleWorkerDb

SpecSearch == InitSpecSearch /\ [][NextSearch]_vars

InitSpecWindow == InitWindow /\ IdleInv /\ IdleSend /\ IdleGate

SpecWindow == InitSpecWindow /\ [][NextWindow]_vars

InitSpecHandshake == InitHandshake /\ IdleInv /\ IdleSend /\ IdleGate /\ IdleWorkerDb

SpecHandshake == InitSpecHandshake /\ [][NextHandshake]_vars

SpecWorker == InitSpecWorker /\ [][NextWorker]_vars

InitSpecRedelivery == InitRedelivery /\ IdleInv /\ IdleSend /\ IdleGate

SpecRedelivery == InitSpecRedelivery /\ [][NextRedelivery]_vars

\* A receiver with its store and secret configured.
InitSpecIdless == InitIdless /\ IdleInv /\ IdleSend /\ IdleWorker

SpecIdless == InitSpecIdless /\ [][NextIdless]_vars

InitSpecStore ==
    /\ settings = [REDIS_URL |-> TRUE, is_local |-> FALSE,
                   TIKTOK_WEBHOOK_SECRET |-> WebhookSecret]
    /\ redis = [e \in EventIds |-> NoKey]
    /\ expired = {}
    /\ req = [r \in Requests |-> ReqIdle]
    /\ queue = {}
    /\ IdleInv
    /\ IdleSend
    /\ IdleWorker

SpecStore == InitSpecStore /\ [][NextStore]_vars

InitSpecPayload == InitPayload /\ IdleInv /\ IdleSend /\ IdleGate /\ IdleWorkerDb

SpecPayload == InitSpecPayload /\ [][NextPayload]_vars

InitSpecRun == InitRun /\ InitInv /\ IdleSend /\ IdleGate

SpecRun == InitSpecRun /\ [][NextRun]_vars

\* A deployment with the webhook secret and the database configured and no
\* user seen yet; the idempotency store may or may not be configured.
InitSpecSystem ==
    /\ settings \in [REDIS_URL : BOOLEAN, is_local : {FALSE},
                     TIKTOK_WEBHOOK_SECRET : {WebhookSecret}]
    /\ redis = [e \in EventIds |-> NoKey]
    /\ expired = {}
    /\ req = [r \in Requests |-> ReqIdle]
    /\ queue = {}
    /\ dbConfigured = TRUE
    /\ users = [u \in UserIds |-> NoUser]
    /\ auditLog = {}
    /\ now = 0
    /\ tasks = [t \in Tasks |-> TaskNone]
    /\ callIn = [fn |-> "none"]
    /\ callOut = [fn |-> "none"]
    /\ IdleInv
    /\ IdleSend

SpecSystem == InitSpecSystem /\ [][NextSystem]_vars

SpecWorkerClock == InitSpecWorker /\ [][NextWorkerClock]_vars

\* The worker takes every queued task once it has a free slot, and every step
\* of a run comes to an end (each await returns or raises).
FairWorker ==
    \A t \in Tasks :
        /\ WF_vars(TaskStart(t))
        /\ WF_vars(UpsertUser(t))
        /\ WF_vars(AIStep(t))
        /\ WF_vars(CommitRun(t))

SpecWorkerFair == InitSpecWorker /\ [][NextWorker]_vars /\ FairWorker

====
